---------------------------- MODULE Spec2Model ----------------------------
(***************************************************************************)
(* A model of the "intuitiveness" repository: the instant-export cleaning  *)
(* pipeline (quality/instant_export.py), the L0->L1 unfold                 *)
(* (ascent/unfold.py) and the L2->L3 graph builder                         *)
(* (ascent/graph_builder.py).                                              *)
(*                                                                         *)
(* Conventions.                                                            *)
(*  - Python's None is the empty tuple <<>>, a present value x is <<x>>.   *)
(*  - A Python str is the tuple of its characters, so that lower(),        *)
(*    the `in` substring test and f-string formatting are computed.        *)
(*  - A DataFrame is [nrows, cols]; cols is the ordered tuple of columns   *)
(*    [name, dtype, vals]; a cell is [k, v] with k one of "num", "str",    *)
(*    "nan", "inf".  A "num" cell holds twice its value, so that the       *)
(*    median of a column of whole numbers is an integer.                   *)
(*  - Progress fractions are held in units of 1/ProgressOne.               *)
(***************************************************************************)
EXTENDS Integers, Sequences, FiniteSets, TLC

None == <<>>
Some(x) == <<x>>
IsNone(o) == o = <<>>
TheValue(o) == o[1]

\* ------------------------------------------------------------------------
\* Python str operations on tuples of characters
\* ------------------------------------------------------------------------

\* the lower-case letter of each upper-case letter
ToLower ==
    LET UpperCase == <<"A","B","C","D","E","F","G","H","I","J","K","L","M","N","O","P","Q","R",
                       "S","T","U","V","W","X","Y","Z">>
        LowerCase == <<"a","b","c","d","e","f","g","h","i","j","k","l","m","n","o","p","q","r",
                       "s","t","u","v","w","x","y","z">>
    IN  [c \in {UpperCase[i] : i \in 1..Len(UpperCase)} |->
            LowerCase[CHOOSE i \in 1..Len(UpperCase) : UpperCase[i] = c]]

\* str.lower() on one character
LowerChar(c) == IF c \in DOMAIN ToLower THEN ToLower[c] ELSE c

\* str.lower()
Lower(s) == [i \in 1..Len(s) |-> LowerChar(s[i])]

\* `sub in s` for two strings
IsSubstring(sub, s) ==
    \E i \in 1..(Len(s) - Len(sub) + 1) : SubSeq(s, i, i + Len(sub) - 1) = sub

\* str(n) for an int n >= 0, as f"{n}" renders it
RECURSIVE IntToStr(_)
IntToStr(n) ==
    LET Digits == <<"0","1","2","3","4","5","6","7","8","9">> IN
    IF n < 10 THEN <<Digits[n + 1]>>
    ELSE IntToStr(n \div 10) \o <<Digits[(n % 10) + 1]>>

PLAIN_SUMMARIES ==
    [ ready |-> <<"Y","o","u","r"," ","d","a","t","a"," ","i","s"," ","r","e","a","d","y"," ",
        "t","o"," ","u","s","e","!"," ","Y","o","u"," ","c","a","n"," ","e","x","p","o","r","t",
        " ","i","t"," ","n","o","w",".">>,
      ready_with_fixes |-> <<"Y","o","u","r"," ","d","a","t","a"," ","i","s"," ","r","e","a",
        "d","y"," ","a","f","t","e","r"," ","s","o","m","e"," ","a","u","t","o","m","a","t","i",
        "c"," ","f","i","x","e","s","."," ","Y","o","u"," ","c","a","n"," ","e","x","p","o","r",
        "t"," ","i","t"," ","n","o","w",".">>,
      needs_target |-> <<"P","l","e","a","s","e"," ","s","e","l","e","c","t"," ","w","h","i",
        "c","h"," ","c","o","l","u","m","n"," ","y","o","u"," ","w","a","n","t"," ","t","o"," ",
        "p","r","e","d","i","c","t"," ","o","r"," ","a","n","a","l","y","z","e",".">>,
      too_small |-> <<"Y","o","u","r"," ","d","a","t","a"," ","h","a","s"," ","v","e","r","y",
        " ","f","e","w"," ","r","o","w","s","."," ","Y","o","u"," ","m","a","y"," ","n","e","e",
        "d"," ","m","o","r","e"," ","d","a","t","a"," ","f","o","r"," ","r","e","l","i","a","b",
        "l","e"," ","a","n","a","l","y","s","i","s",".">>,
      too_messy |-> <<"Y","o","u","r"," ","d","a","t","a"," ","h","a","s"," ","s","i","g","n",
        "i","f","i","c","a","n","t"," ","i","s","s","u","e","s"," ","t","h","a","t"," ","n","e",
        "e","d"," ","m","a","n","u","a","l"," ","r","e","v","i","e","w",".">>,
      no_numeric |-> <<"Y","o","u","r"," ","d","a","t","a"," ","h","a","s"," ","n","o"," ","n",
        "u","m","b","e","r"," ","c","o","l","u","m","n","s","."," ","C","o","n","s","i","d","e",
        "r"," ","a","d","d","i","n","g"," ","s","o","m","e"," ","n","u","m","e","r","i","c"," ",
        "d","a","t","a",".">> ]

PLAIN_WARNINGS ==
    [ missing_values |-> <<"S","o","m","e"," ","c","e","l","l","s"," ","w","e","r","e"," ","e",
        "m","p","t","y"," ","-"," ","w","e"," ","f","i","l","l","e","d"," ","t","h","e","m"," ",
        "w","i","t","h"," ","t","y","p","i","c","a","l"," ","v","a","l","u","e","s",".">>,
      text_encoded |-> <<"T","e","x","t"," ","c","o","l","u","m","n","s"," ","w","e","r","e",
        " ","c","o","n","v","e","r","t","e","d"," ","t","o"," ","n","u","m","b","e","r","s"," ",
        "f","o","r"," ","a","n","a","l","y","s","i","s",".">>,
      high_cardinality |-> <<"S","o","m","e"," ","c","o","l","u","m","n","s"," ","h","a","d",
        " ","t","o","o"," ","m","a","n","y"," ","d","i","f","f","e","r","e","n","t"," ","v","a",
        "l","u","e","s"," ","a","n","d"," ","w","e","r","e"," ","s","i","m","p","l","i","f","i",
        "e","d",".">>,
      column_removed |-> <<"S","o","m","e"," ","c","o","l","u","m","n","s"," ","c","o","u","l",
        "d","n","'","t"," ","b","e"," ","u","s","e","d"," ","a","n","d"," ","w","e","r","e"," ",
        "r","e","m","o","v","e","d",".">>,
      rows_with_issues |-> <<"S","o","m","e"," ","r","o","w","s"," ","h","a","d"," ","p","r",
        "o","b","l","e","m","s"," ","a","n","d"," ","w","e","r","e"," ","e","x","c","l","u","d",
        "e","d",".">>,
      small_dataset |-> <<"W","i","t","h"," ","f","e","w"," ","r","o","w","s",","," ","r","e",
        "s","u","l","t","s"," ","m","a","y"," ","b","e"," ","l","e","s","s"," ","r","e","l","i",
        "a","b","l","e",".">>,
      many_columns |-> <<"Y","o","u","r"," ","d","a","t","a"," ","h","a","s"," ","m","a","n",
        "y"," ","c","o","l","u","m","n","s"," ","-"," ","o","n","l","y"," ","t","h","e"," ","m",
        "o","s","t"," ","u","s","e","f","u","l"," ","o","n","e","s"," ","a","r","e"," ","k","e",
        "p","t",".">> ]

\* the literal parts of the messages of _validate_basic and of the descriptions of
\* _auto_clean
Text ==
    [ column_prefix |-> <<"C","o","l","u","m","n"," ","'">>,
      not_found_suffix |-> <<"'"," ","n","o","t"," ","f","o","u","n","d"," ","i","n"," ","y",
        "o","u","r"," ","d","a","t","a",".">>,
      one_value |-> <<"T","h","e"," ","c","o","l","u","m","n"," ","y","o","u"," ","s","e","l",
        "e","c","t","e","d"," ","h","a","s"," ","o","n","l","y"," ","o","n","e"," ","v","a","l",
        "u","e"," ","-"," ","n","o","t","h","i","n","g"," ","t","o"," ","a","n","a","l","y","z",
        "e",".">>,
      needs_feature |-> <<"Y","o","u","r"," ","d","a","t","a"," ","n","e","e","d","s"," ","a",
        "t"," ","l","e","a","s","t"," ","o","n","e"," ","c","o","l","u","m","n"," ","b","e","s",
        "i","d","e","s"," ","t","h","e"," ","t","a","r","g","e","t",".">>,
      replaced |-> <<"R","e","p","l","a","c","e","d"," ">>,
      extreme_values_in |-> <<" ","e","x","t","r","e","m","e"," ","v","a","l","u","e","s"," ",
        "i","n"," ","'">>,
      with_empty_cells |-> <<"'"," ","w","i","t","h"," ","e","m","p","t","y"," ","c","e","l",
        "l","s">>,
      removed |-> <<"R","e","m","o","v","e","d"," ">>,
      rows_missing_target |-> <<" ","r","o","w","s"," ","w","i","t","h"," ","m","i","s","s","i",
        "n","g"," ","t","a","r","g","e","t"," ","v","a","l","u","e","s">>,
      removed_quote |-> <<"R","e","m","o","v","e","d"," ","'">>,
      only_one_value |-> <<"'"," ","-"," ","o","n","l","y"," ","o","n","e"," ","v","a","l","u",
        "e">>,
      too_many_empty |-> <<"'"," ","-"," ","t","o","o"," ","m","a","n","y"," ","e","m","p","t",
        "y"," ","c","e","l","l","s">>,
      filled |-> <<"F","i","l","l","e","d"," ">>,
      empty_cells_in |-> <<" ","e","m","p","t","y"," ","c","e","l","l","s"," ","i","n"," ","'">>,
      with_typical |-> <<"'"," ","w","i","t","h"," ","t","y","p","i","c","a","l"," ","v","a",
        "l","u","e">>,
      with_most_common |-> <<"'"," ","w","i","t","h"," ","m","o","s","t"," ","c","o","m","m",
        "o","n"," ","v","a","l","u","e">>,
      simplified |-> <<"S","i","m","p","l","i","f","i","e","d"," ","'">>,
      by_grouping |-> <<"'"," ","b","y"," ","g","r","o","u","p","i","n","g"," ","r","a","r","e",
        " ","v","a","l","u","e","s">>,
      converted_text_in |-> <<"C","o","n","v","e","r","t","e","d"," ","t","e","x","t"," ","i",
        "n"," ","'">>,
      to_numbers |-> <<"'"," ","t","o"," ","n","u","m","b","e","r","s">> ]

\* _determine_readiness, lines 534-538
critical_warnings ==
    { <<"t","o","o"," ","m","a","n","y"," ","e","m","p","t","y">>,
      <<"c","o","u","l","d","n","'","t"," ","b","e"," ","u","s","e","d">>,
      <<"n","e","e","d"," ","m","o","r","e"," ","d","a","t","a">> }

\* the forbidden terms (tests/quality/test_instant_export.py, TestNoMLJargon.ML_JARGON)
ML_JARGON ==
    << <<"c","r","o","s","s","-","v","a","l","i","d","a","t","i","o","n">>,
       <<"c","v">>,
       <<"f","o","l","d">>,
       <<"h","y","p","e","r","p","a","r","a","m","e","t","e","r">>,
       <<"l","e","a","r","n","i","n","g"," ","r","a","t","e">>,
       <<"g","r","a","d","i","e","n","t">>,
       <<"e","p","o","c","h">>,
       <<"b","a","t","c","h">>,
       <<"o","v","e","r","f","i","t","t","i","n","g">>,
       <<"u","n","d","e","r","f","i","t","t","i","n","g">>,
       <<"r","e","g","u","l","a","r","i","z","a","t","i","o","n">>,
       <<"l","1">>,
       <<"l","2">>,
       <<"f","e","a","t","u","r","e"," ","i","m","p","o","r","t","a","n","c","e">>,
       <<"a","b","l","a","t","i","o","n">>,
       <<"S","H","A","P">>,
       <<"p","e","r","m","u","t","a","t","i","o","n">>,
       <<"p","r","e","c","i","s","i","o","n">>,
       <<"r","e","c","a","l","l">>,
       <<"f","1">>,
       <<"A","U","C">>,
       <<"R","O","C">>,
       <<"n","e","u","r","a","l">>,
       <<"l","a","y","e","r">>,
       <<"e","m","b","e","d","d","i","n","g">>,
       <<"t","r","a","n","s","f","o","r","m","e","r">>,
       <<"s","k","l","e","a","r","n">>,
       <<"t","a","b","p","f","n">> >>

\* `jargon.lower() not in text.lower()` for every term of the list
has_no_jargon(text) ==
    \A i \in 1..Len(ML_JARGON) : ~IsSubstring(Lower(ML_JARGON[i]), Lower(text))

\* ------------------------------------------------------------------------
\* pandas values: cells, Series operations, DataFrame operations
\* ------------------------------------------------------------------------

NaN == [k |-> "nan", v |-> 0]
PosInf == [k |-> "inf", v |-> 1]
NegInf == [k |-> "inf", v |-> -1]
Num(x) == [k |-> "num", v |-> 2 * x]
Str(i) == [k |-> "str", v |-> i]
\* a cell that holds a Python list, which cannot be hashed
Unhashable(i) == [k |-> "list", v |-> i]

\* the object-dtype labels that the pipeline itself writes into a column,
\* placed where Python's string order places them among the input labels
\* Str(1), Str(2), ... ("apple", "banana", ...) and Str(101), ... ("user_001", ...)
OtherLabel == Str(0)
UnknownLabel == Str(1000)

isna(c) == c.k = "nan"
isinf(c) == c.k = "inf"

\* the order pandas sorts the non-null values of one column in
SortKey(c) == IF c.k = "inf" THEN c.v * 1000000 ELSE c.v

NotNull(vals) == {i \in 1..Len(vals) : ~isna(vals[i])}

\* Series.isna().sum()
isna_sum(vals) == Cardinality({i \in 1..Len(vals) : isna(vals[i])})

\* np.isinf(series).sum()
isinf_sum(vals) == Cardinality({i \in 1..Len(vals) : isinf(vals[i])})

\* whether Series.nunique() can hash every non-null value; it raises TypeError
\* when it cannot
is_hashable(vals) == \A i \in NotNull(vals) : vals[i].k # "list"

\* Series.nunique(): the number of distinct non-null values
nunique(vals) == Cardinality({vals[i] : i \in NotNull(vals)})

\* Series.replace([np.inf, -np.inf], np.nan)
replace_inf(vals) == [i \in 1..Len(vals) |-> IF isinf(vals[i]) THEN NaN ELSE vals[i]]

\* a fillna that leaves the cells as they are
fillna_nothing(vals, value) == vals

\* Series.fillna(value)
fillna(vals, value) == [i \in 1..Len(vals) |-> IF isna(vals[i]) THEN value ELSE vals[i]]

\* the k-th smallest (k >= 1) of the non-null values
KthSmallest(vals, k) ==
    CHOOSE c \in {vals[i] : i \in NotNull(vals)} :
        /\ Cardinality({i \in NotNull(vals) : SortKey(vals[i]) < SortKey(c)}) < k
        /\ Cardinality({i \in NotNull(vals) : SortKey(vals[i]) <= SortKey(c)}) >= k

\* the mean of the two middle values of an even-sized column
MidPoint(lo, hi) ==
    IF lo.k = "inf" /\ hi.k = "inf" THEN (IF lo.v = hi.v THEN lo ELSE NaN)
    ELSE IF lo.k = "inf" THEN lo
    ELSE IF hi.k = "inf" THEN hi
    ELSE [k |-> "num", v |-> (lo.v + hi.v) \div 2]

\* Series.median(): NaN are skipped; NaN for an all-null column
median(vals) ==
    LET n == Cardinality(NotNull(vals)) IN
    IF n = 0 THEN NaN
    ELSE IF n % 2 = 1 THEN KthSmallest(vals, (n + 1) \div 2)
    ELSE MidPoint(KthSmallest(vals, n \div 2), KthSmallest(vals, n \div 2 + 1))

CountOf(vals, c) == Cardinality({i \in 1..Len(vals) : vals[i] = c})

\* Series.mode(): the most frequent non-null values, in sorted order
mode(vals) ==
    LET present == {vals[i] : i \in NotNull(vals)}
        counts == [c \in present |-> CountOf(vals, c)]
        best == {c \in present : \A d \in present : counts[d] <= counts[c]}
        rank(c) == Cardinality({d \in best : SortKey(d) < SortKey(c)})
    IN  [r \in 1..Cardinality(best) |-> CHOOSE c \in best : rank(c) = r - 1]

\* pd.Categorical(series).codes: the rank of each value among the sorted
\* distinct values, -1 for a null
categorical_codes(vals) ==
    LET present == {vals[i] : i \in NotNull(vals)}
        code(c) == Cardinality({d \in present : SortKey(d) < SortKey(c)})
    IN  [i \in 1..Len(vals) |-> IF isna(vals[i]) THEN Num(-1) ELSE Num(code(vals[i]))]

FirstIndex(vals, c) ==
    LET at == {i \in 1..Len(vals) : vals[i] = c} IN
    CHOOSE i \in at : \A j \in at : i <= j

\* the subsets of S that have k elements
KSubsets(S, k) ==
    {T \in {{f[i] : i \in 1..k} : f \in [1..k -> S]} : Cardinality(T) = k}

\* set(series.value_counts().head(n).index): the n most frequent values.
\* value_counts sorts the counts with a sort that is not stable, so the order
\* of equally frequent values is the affair of the build: tied_last are the
\* values its sort puts after the others of the same count (the remaining ties
\* are in order of first appearance).  Over all sets tied_last, every set of n
\* values that a descending sort of the counts can put first comes out.
value_counts_head(vals, n, tied_last) ==
    LET present == {vals[i] : i \in NotNull(vals)}
        counts == [c \in present |-> CountOf(vals, c)]
        first == [c \in present |-> FirstIndex(vals, c)]
        before(d, c) == \/ counts[d] > counts[c]
                        \/ /\ counts[d] = counts[c]
                           /\ \/ d \notin tied_last /\ c \in tied_last
                              \/ /\ (d \in tied_last) = (c \in tied_last)
                                 /\ first[d] < first[c]
    IN  {c \in present : Cardinality({d \in present : before(d, c)}) < n}

\* the sets tied_last that tell the outcomes of value_counts().head(n) apart:
\* of the values whose count is the count of the n-th, as many as do not fit
\* into the first n
TieChoices(vals, n) ==
    LET present == {vals[i] : i \in NotNull(vals)}
        counts == [c \in present |-> CountOf(vals, c)]
        AtLeast(b) == {c \in present : counts[c] >= b}
        nth == CHOOSE b \in {counts[c] : c \in present} :
                   Cardinality(AtLeast(b + 1)) < n /\ Cardinality(AtLeast(b)) >= n
    IN  IF Cardinality(present) <= n THEN {{}}
        ELSE KSubsets(AtLeast(nth) \ AtLeast(nth + 1), Cardinality(AtLeast(nth)) - n)

\* series.apply(lambda x: x if x in top_values else "_other_")
group_rare(vals, top_values) ==
    [i \in 1..Len(vals) |-> IF vals[i] \in top_values THEN vals[i] ELSE OtherLabel]

\* --- DataFrame ---

ColumnNames(df) == [i \in 1..Len(df.cols) |-> df.cols[i].name]
HasColumn(df, name) == \E i \in 1..Len(df.cols) : df.cols[i].name = name
ColumnIndex(df, name) == CHOOSE i \in 1..Len(df.cols) : df.cols[i].name = name
\* df[name]
Col(df, name) == df.cols[ColumnIndex(df, name)]

\* df[name] = vals (an existing column keeps its place)
SetColumn(df, name, dtype, vals) ==
    [df EXCEPT !.cols[ColumnIndex(df, name)] = [name |-> name, dtype |-> dtype, vals |-> vals]]

\* the sub-tuple of s at the positions satisfying keep, in order
RECURSIVE SelectSeq2(_, _, _)
SelectSeq2(s, keep, i) ==
    IF i > Len(s) THEN <<>>
    ELSE (IF i \in keep THEN <<s[i]>> ELSE <<>>) \o SelectSeq2(s, keep, i + 1)

\* df.dropna(subset=[name])
dropna_subset(df, name) ==
    LET keep == NotNull(Col(df, name).vals) IN
    [nrows |-> Cardinality(keep),
     cols  |-> [i \in 1..Len(df.cols) |->
                   [df.cols[i] EXCEPT !.vals = SelectSeq2(df.cols[i].vals, keep, 1)]]]

\* df.drop(columns=names)
drop_columns(df, names) ==
    LET keep == {i \in 1..Len(df.cols) : \A j \in 1..Len(names) : names[j] # df.cols[i].name} IN
    [df EXCEPT !.cols = SelectSeq2(df.cols, keep, 1)]

\* pd.api.types.is_numeric_dtype(series)
is_numeric_dtype(col) == col.dtype = "numeric"

\* what a call gives back: the exception it raised, or the value it returned
Raised(exception) == [raised |-> Some(exception), returned |-> None]
Returned(value) == [raised |-> None, returned |-> Some(value)]


\* ------------------------------------------------------------------------
\* quality/instant_export.py: the pure parts of InstantExporter
\* ------------------------------------------------------------------------

\* fractions passed to the progress callback are held in units of 1/ProgressOne
ProgressOne == 6 * 1000
\* a float f is held as f * ProgressOne
Frac(num, den) == (num * ProgressOne) \div den

\* scores (wrapper.score, validation_score) are held in hundredths
ScoreOne == 10 * 10

\* intuitiveness/utils.py
MIN_ROWS_FOR_ASSESSMENT == 50
HIGH_CARDINALITY_THRESHOLD == 100

SeqContains(s, x) == \E i \in 1..Len(s) : s[i] = x

\* the types utils.detect_feature_type tells apart (the keys it indexes at
\* feature_profiler.py:119-125)
FeatureTypes == {"numeric", "categorical", "boolean", "datetime"}

\* intuitiveness/utils.py detect_feature_type(series), one of FeatureTypes.
\* The module is not in src/.  A column of text is "categorical": the
\* specification has the categorical columns filled with their most frequent
\* value and encoded, and tests/quality/test_instant_export.py:421-434 expects
\* an encode_category action for a column of three labels.  Which type a
\* column of numbers gets (a column of few whole numbers, or of codes, can be
\* "numeric", "categorical" or "boolean") is told nowhere: `answer` is the
\* type this call gives a column of numbers.
detect_feature_type(series, answer) ==
    IF series.dtype = "object" THEN "categorical" ELSE answer

CleaningAction(action_type, column, description, rows_affected) ==
    [action_type |-> action_type, column |-> column,
     description |-> description, rows_affected |-> rows_affected]

\* InstantExporter._validate_basic: the list of blocking issues.  Series.nunique
\* of line 250 hashes the cells of the target and raises TypeError on a list.
_validate_basic(df, target_column) ==
    IF ~HasColumn(df, target_column)
        THEN Returned(<<Text.column_prefix \o target_column \o Text.not_found_suffix>>)
    ELSE IF df.nrows < 10
        THEN Returned(<<PLAIN_SUMMARIES.too_small>>)
    ELSE IF ~is_hashable(Col(df, target_column).vals)
        THEN Raised("TypeError")
    ELSE IF nunique(Col(df, target_column).vals) < 2
        THEN Returned(<<Text.one_value>>)
    ELSE IF \A i \in 1..Len(df.cols) : df.cols[i].name = target_column
        THEN Returned(<<Text.needs_feature>>)
    ELSE Returned(<<>>)

\* _auto_clean step 0: every numeric column, the target included
RECURSIVE CleanInfValues(_, _)
CleanInfValues(st, i) ==
    IF i > Len(st.cleaned.cols) THEN st
    ELSE LET col == st.cleaned.cols[i]
             inf_count == isinf_sum(col.vals)
         IN  IF is_numeric_dtype(col) /\ inf_count > 0
             THEN CleanInfValues(
                    [st EXCEPT
                       !.cleaned = SetColumn(@, col.name, col.dtype, replace_inf(col.vals)),
                       !.actions = Append(@, CleaningAction("convert_type", col.name,
                                      Text.replaced \o IntToStr(inf_count) \o Text.extreme_values_in
                                          \o col.name \o Text.with_empty_cells,
                                      inf_count))],
                    i + 1)
             ELSE CleanInfValues(st, i + 1)

\* a step 1 that removes the rows and logs no action
RemoveMissingTargetRowsSilently(st, df, target_column) ==
    [st EXCEPT !.cleaned = dropna_subset(@, target_column)]

\* _auto_clean step 1: rows whose target is missing
RemoveMissingTargetRows(st, df, target_column) ==
    LET target_missing == isna_sum(Col(st.cleaned, target_column).vals) IN
    IF target_missing > 0
    THEN [st EXCEPT
            !.cleaned = dropna_subset(@, target_column),
            !.actions = Append(@, CleaningAction("remove_rows", target_column,
                           Text.removed \o IntToStr(target_missing) \o Text.rows_missing_target,
                           target_missing)),
            !.warnings = IF 10 * target_missing > df.nrows
                            THEN Append(@, PLAIN_WARNINGS.rows_with_issues) ELSE @]
    ELSE st

\* _auto_clean step 2, "Handle missing values" of one retained column;
\* answers[1] is what detect_feature_type tells of numbers at line 362
FillMissing(st, col, n_missing, answers) ==
    LET series == Col(st.cleaned, col) IN
    IF n_missing > 0
    THEN IF detect_feature_type(series, answers[1]) = "numeric"
         THEN [st EXCEPT
                 !.cleaned = SetColumn(@, col, series.dtype,
                                       fillna(series.vals, median(series.vals))),
                 !.actions = Append(@, CleaningAction("fill_missing", col,
                                Text.filled \o IntToStr(n_missing) \o Text.empty_cells_in
                                    \o col \o Text.with_typical,
                                n_missing))]
         ELSE LET mode_values == mode(series.vals)
                  fill_value == IF Len(mode_values) > 0 THEN mode_values[1] ELSE UnknownLabel
              IN  [st EXCEPT
                     !.cleaned = SetColumn(@, col, series.dtype, fillna(series.vals, fill_value)),
                     !.actions = Append(@, CleaningAction("fill_missing", col,
                                    Text.filled \o IntToStr(n_missing) \o Text.empty_cells_in
                                        \o col \o Text.with_most_common,
                                    n_missing))]
    ELSE st

\* _auto_clean step 2, "Handle high-cardinality categoricals" and "Encode
\* categoricals": feature_type is read once, after the fill; answers[2] is
\* what detect_feature_type tells of numbers at line 384
EncodeCategorical(st, col, n_unique, tied_last, answers) ==
    LET feature_type == detect_feature_type(Col(st.cleaned, col), answers[2])
        s1 == IF feature_type = "categorical" /\ n_unique > HIGH_CARDINALITY_THRESHOLD
              THEN LET series == Col(st.cleaned, col)
                       top_values == value_counts_head(series.vals, 99, tied_last)
                   IN  [st EXCEPT
                          !.cleaned = SetColumn(@, col, "object",
                                                group_rare(series.vals, top_values)),
                          !.actions = Append(@, CleaningAction("encode_category", col,
                                         Text.simplified \o col \o Text.by_grouping, 0)),
                          !.warnings = Append(@, PLAIN_WARNINGS.high_cardinality)]
              ELSE st
    IN  IF feature_type = "categorical"
        THEN [s1 EXCEPT
                !.cleaned = SetColumn(@, col, "numeric",
                                      categorical_codes(Col(s1.cleaned, col).vals)),
                !.actions = Append(@, CleaningAction("encode_category", col,
                               Text.converted_text_in \o col \o Text.to_numbers, 0))]
        ELSE s1

\* _auto_clean step 2: the loop over feature_cols (i counts from 0 as enumerate
\* does); the TypeError of nunique() on a column of unhashable values ends it.
\* Each column has its own value_counts call and its own two calls of
\* detect_feature_type, so tied_last has one tie order and feature_types one
\* pair of answers for each of feature_cols.
RECURSIVE ProcessFeatureColumns(_, _, _, _, _)
ProcessFeatureColumns(st, feature_cols, i, tied_last, feature_types) ==
    IF i >= Len(feature_cols) THEN st
    ELSE LET col == feature_cols[i + 1]
             total_cols == Len(feature_cols)
             s0 == [st EXCEPT !.reports = Append(@, Frac(i, total_cols))]
             vals == Col(st.cleaned, col).vals
             n_unique == nunique(vals)
             n_missing == isna_sum(vals)
             \* missing_ratio > 0.9, with missing_ratio = 1.0 for an empty frame
             too_many_missing == IF st.cleaned.nrows > 0
                                    THEN 10 * n_missing > 9 * st.cleaned.nrows
                                    ELSE TRUE
         IN  IF ~is_hashable(vals) THEN [s0 EXCEPT !.raised = Some("TypeError")]
             ELSE IF n_unique <= 1
             THEN ProcessFeatureColumns(
                    [s0 EXCEPT !.cols_to_drop = Append(@, col),
                               !.actions = Append(@, CleaningAction("remove_column", col,
                                              Text.removed_quote \o col \o Text.only_one_value, 0))],
                    feature_cols, i + 1, tied_last, feature_types)
             ELSE IF too_many_missing
             THEN ProcessFeatureColumns(
                    [s0 EXCEPT !.cols_to_drop = Append(@, col),
                               !.actions = Append(@, CleaningAction("remove_column", col,
                                              Text.removed_quote \o col \o Text.too_many_empty, 0))],
                    feature_cols, i + 1, tied_last, feature_types)
             ELSE ProcessFeatureColumns(
                    EncodeCategorical(FillMissing(s0, col, n_missing, feature_types[i + 1]),
                                      col, n_unique, tied_last[i + 1], feature_types[i + 1]),
                    feature_cols, i + 1, tied_last, feature_types)

\* _auto_clean, after the loop: drop the columns, add the general warnings
FinishClean(st) ==
    LET s1 == IF Len(st.cols_to_drop) > 0
              THEN [st EXCEPT
                      !.cleaned = drop_columns(@, st.cols_to_drop),
                      !.warnings = IF Len(st.cols_to_drop) > 1
                                      THEN Append(@, PLAIN_WARNINGS.column_removed) ELSE @]
              ELSE st
        any(t) == \E j \in 1..Len(s1.actions) : s1.actions[j].action_type = t
        s2 == IF any("fill_missing") /\ ~SeqContains(s1.warnings, PLAIN_WARNINGS.missing_values)
              THEN [s1 EXCEPT !.warnings = <<PLAIN_WARNINGS.missing_values>> \o @]
              ELSE s1
        s3 == IF any("encode_category") /\ ~SeqContains(s2.warnings, PLAIN_WARNINGS.text_encoded)
              THEN [s2 EXCEPT !.warnings = Append(@, PLAIN_WARNINGS.text_encoded)]
              ELSE s2
        s4 == IF s3.cleaned.nrows < MIN_ROWS_FOR_ASSESSMENT
              THEN [s3 EXCEPT !.warnings = Append(@, PLAIN_WARNINGS.small_dataset)]
              ELSE s3
    IN  [s4 EXCEPT !.reports = Append(@, Frac(1, 1))]

\* the names of the columns other than the target, in column order
FeatureCols(df, target_column) ==
    LET keep == {i \in 1..Len(df.cols) : df.cols[i].name # target_column} IN
    SelectSeq2(ColumnNames(df), keep, 1)

\* one answer of each kind: _auto_clean compares the answer of line 362 with
\* "numeric" only and the answer of line 384 with "categorical" only, so the
\* answers that differ from the one tested all leave the same state, and one
\* of them stands for them
AnswersApart(tested) == {tested, CHOOSE a \in FeatureTypes : a # tested}

\* the answers detect_feature_type can give in one _auto_clean: for each of
\* feature_cols the answer of line 362 and the answer of line 384, each any
\* of FeatureTypes where the call is made on a column of numbers (line 362
\* is reached only with empty cells, and neither line for a column that is
\* dropped); "categorical" stands where no answer is asked
RECURSIVE TypeChoicesFrom(_, _, _)
TypeChoicesFrom(cleaned, feature_cols, i) ==
    IF i > Len(feature_cols) THEN {<<>>}
    ELSE LET rest == TypeChoicesFrom(cleaned, feature_cols, i + 1)
             series == Col(cleaned, feature_cols[i])
             n_missing == isna_sum(series.vals)
             asked == /\ series.dtype # "object"
                      /\ is_hashable(series.vals)
                      /\ nunique(series.vals) > 1
                      /\ 10 * n_missing <= 9 * cleaned.nrows
             at_fill == IF asked /\ n_missing > 0 THEN AnswersApart("numeric")
                        ELSE {"categorical"}
             at_encode == IF asked THEN AnswersApart("categorical") ELSE {"categorical"}
         IN  {<< <<a, b>> >> \o others : a \in at_fill, b \in at_encode, others \in rest}

TypeChoices(df, target_column) ==
    LET st0 == [cleaned |-> df, actions |-> <<>>, warnings |-> <<>>,
                cols_to_drop |-> <<>>, reports |-> <<>>, raised |-> None]
        st2 == RemoveMissingTargetRows(CleanInfValues(st0, 1), df, target_column)
    IN  TypeChoicesFrom(st2.cleaned, FeatureCols(df, target_column), 1)

\* the ways the sort of value_counts can leave the equal counts of the
\* columns that _auto_clean groups at line 387: a tie order for each of
\* feature_cols, independent of the others, taken on the column as it is
\* there (infinities replaced, the rows without a target removed, the empty
\* cells filled); the empty one for a column that is not grouped
RECURSIVE SortChoicesFrom(_, _, _, _)
SortChoicesFrom(cleaned, feature_cols, i, feature_types) ==
    IF i > Len(feature_cols) THEN {<<>>}
    ELSE LET rest == SortChoicesFrom(cleaned, feature_cols, i + 1, feature_types)
             series == Col(cleaned, feature_cols[i])
             mode_values == mode(series.vals)
             filled == IF isna_sum(series.vals) = 0 THEN series.vals
                       ELSE IF detect_feature_type(series, feature_types[i][1]) = "numeric"
                       THEN fillna(series.vals, median(series.vals))
                       ELSE IF Len(mode_values) > 0 THEN fillna(series.vals, mode_values[1])
                       ELSE series.vals
         IN  IF /\ is_hashable(series.vals)
                /\ detect_feature_type(series, feature_types[i][2]) = "categorical"
                /\ nunique(series.vals) > HIGH_CARDINALITY_THRESHOLD
             THEN {<<last>> \o others : last \in TieChoices(filled, 99), others \in rest}
             ELSE {<<{}>> \o others : others \in rest}

SortChoices(df, target_column, feature_types) ==
    LET st0 == [cleaned |-> df, actions |-> <<>>, warnings |-> <<>>,
                cols_to_drop |-> <<>>, reports |-> <<>>, raised |-> None]
        st2 == RemoveMissingTargetRows(CleanInfValues(st0, 1), df, target_column)
    IN  SortChoicesFrom(st2.cleaned, FeatureCols(df, target_column), 1, feature_types)

\* an _auto_clean that handles the feature columns before it removes the rows
\* without a target
_auto_clean_columns_first(df, target_column, tied_last, feature_types) ==
    LET st0 == [cleaned |-> df, actions |-> <<>>, warnings |-> <<>>,
                cols_to_drop |-> <<>>, reports |-> <<>>, raised |-> None]
        st1 == CleanInfValues(st0, 1)
        st2 == ProcessFeatureColumns(st1, FeatureCols(df, target_column), 0, tied_last,
                                     feature_types)
        st3 == RemoveMissingTargetRows(st2, df, target_column)
        st4 == FinishClean(st3)
    IN  [cleaned |-> st4.cleaned, actions |-> st4.actions,
         warnings |-> st4.warnings, reports |-> st4.reports, raised |-> st4.raised]

\* InstantExporter._auto_clean: (cleaned_df, cleaning_actions, warnings), and
\* the fractions it hands to its progress callback; or the exception it
\* raised, with what it had done until then.  tied_last is, for each feature
\* column, how the sort of value_counts leaves equal counts (see
\* value_counts_head), and feature_types what detect_feature_type tells of
\* it when it holds numbers (see detect_feature_type).
_auto_clean(df, target_column, tied_last, feature_types) ==
    LET st0 == [cleaned |-> df, actions |-> <<>>, warnings |-> <<>>,
                cols_to_drop |-> <<>>, reports |-> <<>>, raised |-> None]
        feature_cols == FeatureCols(df, target_column)
        st1 == CleanInfValues(st0, 1)
        st2 == RemoveMissingTargetRows(st1, df, target_column)
        st3 == ProcessFeatureColumns(st2, feature_cols, 0, tied_last, feature_types)
        st4 == IF IsNone(st3.raised) THEN FinishClean(st3) ELSE st3
    IN  [cleaned |-> st4.cleaned, actions |-> st4.actions,
         warnings |-> st4.warnings, reports |-> st4.reports, raised |-> st4.raised]

\* any(crit in warning.lower() for crit in critical_warnings)
IsCriticalWarning(warning) ==
    LET lowered == Lower(warning) IN
    \E crit \in critical_warnings : IsSubstring(crit, lowered)

\* a _determine_readiness that does not look at the warnings
_determine_readiness_no_warnings(cleaned_df, cleaning_actions, warnings, validation_score) ==
    IF cleaned_df.nrows < 10 THEN FALSE
    ELSE IF Len(cleaned_df.cols) < 3 THEN FALSE
    ELSE IF ~IsNone(validation_score) /\ TheValue(validation_score) < 50 * ScoreOne THEN FALSE
    ELSE TRUE

\* InstantExporter._determine_readiness
_determine_readiness(cleaned_df, cleaning_actions, warnings, validation_score) ==
    IF cleaned_df.nrows < 10 THEN FALSE
    ELSE IF Len(cleaned_df.cols) < 3 THEN FALSE
    ELSE IF ~IsNone(validation_score) /\ TheValue(validation_score) < 50 * ScoreOne THEN FALSE
    ELSE IF \E i \in 1..Len(warnings) : IsCriticalWarning(warnings[i]) THEN FALSE
    ELSE TRUE

\* tabpfn_wrapper.is_tabpfn_available, from the two module-level flags
is_tabpfn_available(client_available, local_available) ==
    IF client_available THEN <<TRUE, "client">>
    ELSE IF local_available THEN <<TRUE, "local">>
    ELSE <<FALSE, "none">>

\* ------------------------------------------------------------------------
\* Input datasets
\* ------------------------------------------------------------------------

\* the most feature columns of an input dataset
MaxFeatures == 2
\* max_api_calls ranges over 0..MaxApiCalls
MaxApiCalls == 2

TargetName == <<"t","a","r","g","e","t">>
AbsentName == <<"n","o","n","e","x","i","s","t","e","n","t">>
FeatureNames == << <<"a">>, <<"b">>, <<"c">>, <<"d">> >>

\* row counts: below, at and above the 10-row minimum, and enough rows for a
\* column to be more than 90% empty with two distinct values left
RowCounts == {5, 10, 12, 21}

FeaturePatterns ==
    <<"cycle", "const", "gaps", "inf", "allinf", "sparse", "tail", "text", "textgaps">>
TargetPatterns == {"binary", "missing", "tinf", "constant", "labels"}

\* cell i of an n-row column drawn after pattern p
PatternCell(p, i, n) ==
    CASE p = "cycle"    -> Num(1 + (i % 3))
      [] p = "const"    -> Num(1)
      [] p = "gaps"     -> IF i <= 2 THEN NaN ELSE Num(1 + (i % 3))
      [] p = "inf"      -> IF i = 1 THEN PosInf ELSE IF i = 2 THEN NegInf ELSE Num(1 + (i % 3))
      [] p = "allinf"   -> PosInf
      [] p = "sparse"   -> IF i <= 2 THEN Num(i) ELSE NaN
      [] p = "tail"     -> IF i > n - 2 THEN Num(2) ELSE Num(1)
      [] p = "text"     -> Str(1 + (i % 3))
      [] p = "textgaps" -> IF i <= 2 THEN NaN ELSE Str(1 + (i % 2))
      [] p = "idpairs"  -> IF i <= n - 3 THEN Str(100 + (i + 1) \div 2)
                           ELSE Str(100 + (n - 3) \div 2 + (i - (n - 3)))
      [] p = "binary"   -> Num(i % 2)
      [] p = "missing"  -> IF i > n - 2 THEN NaN ELSE Num(i % 2)
      [] p = "tinf"     -> IF i = 3 THEN PosInf ELSE Num(i % 2)
      [] p = "constant" -> IF i = 1 THEN NaN ELSE Num(1)
      [] p = "labels"   -> Str(1 + (i % 2))

PatternColumn(name, p, n) ==
    [name  |-> name,
     dtype |-> IF p \in {"text", "textgaps", "idpairs", "labels"} THEN "object" ELSE "numeric",
     vals  |-> [i \in 1..n |-> PatternCell(p, i, n)]]

\* the DataFrame with the feature columns fps (pattern indexes) and then the target
Dataset(n, tp, fps) ==
    [nrows |-> n,
     cols  |-> [j \in 1..Len(fps) |-> PatternColumn(FeatureNames[j], FeaturePatterns[fps[j]], n)]
               \o <<PatternColumn(TargetName, tp, n)>>]

\* strictly increasing tuples of at most MaxFeatures pattern indexes
FeatureChoices ==
    UNION {{fps \in [1..k -> 1..Len(FeaturePatterns)] :
               \A j \in 1..(k - 1) : fps[j] < fps[j + 1]} : k \in 0..MaxFeatures}

\* the datasets of at most MaxFeatures feature columns, and two wider ones,
\* each with two columns that cleaning drops and two it keeps
Datasets ==
    {Dataset(n, tp, fps) : n \in RowCounts, tp \in TargetPatterns,
                           fps \in FeatureChoices \cup {<<1, 2, 6, 7>>, <<2, 5, 7, 8>>}}

\* a column of HIGH_CARDINALITY_THRESHOLD + 1 distinct labels beside a clean
\* numeric column: all labels but three are there twice, so the 99th most
\* frequent is one of the three that are there once
ManyLabelsDataset ==
    LET ManyRows == 2 * (HIGH_CARDINALITY_THRESHOLD - 2) + 3 IN
    [nrows |-> ManyRows,
     cols  |-> <<PatternColumn(FeatureNames[1], "idpairs", ManyRows),
                 PatternColumn(FeatureNames[2], "cycle", ManyRows),
                 PatternColumn(TargetName, "binary", ManyRows)>>]

\* a dataset whose feature column has empty cells and is named "batch"
BatchDataset ==
    LET plain == Dataset(12, "binary", <<3>>)
    IN  [plain EXCEPT !.cols[1].name = <<"b","a","t","c","h">>]

\* the dataset of 12 rows with the feature columns fps, but a list in every
\* cell of the column at position `at`, the target when `at` is Len(fps) + 1
UnhashableDataset(fps, at) ==
    LET plain == Dataset(12, "binary", fps)
    IN  [plain EXCEPT !.cols[at].dtype = "object",
                      !.cols[at].vals = [i \in 1..12 |-> Unhashable(i)]]

\* the (df, target_column) pairs check_and_export is called with
Calls ==
    {<<d, TargetName>> : d \in Datasets}
    \cup {<<Dataset(n, "binary", <<1>>), AbsentName>> : n \in RowCounts}
    \cup {<<BatchDataset, TargetName>>}

\* the (df, target_column) pairs _auto_clean is studied on
CleanCalls == Calls \cup {<<ManyLabelsDataset, TargetName>>}

\* the pairs with a column of lists, one of them after a column of
\* infinities and two of them with the lists in the target, alone and
\* beside a feature column, with clean datasets of the same shapes
ErrorCalls ==
    {<<UnhashableDataset(c[1], c[2]), TargetName>> :
        c \in {<< <<1>>, 1 >>, << <<1, 1>>, 1 >>, << <<1, 1>>, 2 >>, << <<1, 1, 1>>, 3 >>,
               << <<5, 1>>, 2 >>, << <<>>, 1 >>, << <<1>>, 2 >>}}
    \cup {<<Dataset(n, "binary", <<>>), TargetName>> : n \in {5, 12}}
    \cup {<<Dataset(12, "binary", fps), TargetName>> : fps \in {<<1>>, <<1, 1>>, <<5, 1>>}}

\* what wrapper.score returns, in hundredths
Scores == {20, 50, 90}

\* ------------------------------------------------------------------------
\* State
\* ------------------------------------------------------------------------

VARIABLES
    \* InstantExporter instance (instant_export.py:103-105)
    enable_tabpfn_validation, max_api_calls, _api_calls_used,
    \* the position of the running check_and_export call and its locals
    pc, run,
    \* what the progress callback has received, in call order
    progress_calls,
    \* the ExportResult returned (None before the return)
    result,
    \* history: the phases the call entered, and how the external check went
    phases, external_check,
    \* the outcome of one more _auto_clean call on result.cleaned_df
    reclean,
    \* the L0 datum a caller holds, the vector it was aggregated from, and the
    \* outcomes of the unfold_l0_to_l1 calls made on it
    datum, aggregated_from, unfolded,
    \* the last build_l2_to_l3_graph call, its outcome (whose graph
    \* remove_orphan_nodes changes in place), and what remove_orphan_nodes
    \* returned
    graph_call, graph_result, repaired,
    \* a DataLineage object, the arguments of the add_operation calls made on it,
    \* the last get_history() it returned, what its last other query returned, the
    \* file it was exported to, the object as it was at that export, and the
    \* object loaded from that file
    lineage, add_calls, history_seen, lineage_answer, lineage_file, exported, loaded,
    \* st.session_state['cache_entries'] and the reading of the clock; what was
    \* set under each key and not invalidated since, the set_joined_dataset
    \* calls since the last clear_all, and the last get if no other call followed
    cache_entries, clock, stored, joined_calls, cache_got,
    \* a TabPFNWrapper object, the fit call in progress on it, the worker thread
    \* of that call, how the last finished call ended, and whether a fit call
    \* on the object has completed
    wrapper, fit_call, worker, wrapper_outcome, fit_completed,
    \* the last enrich_l1_to_l2 call and its outcome
    enrich_call, enrich_result,
    \* the threads that call check_and_export, each with the position of its
    \* call, the exporter it calls, and what it has done and been told
    callers

export_vars == <<enable_tabpfn_validation, max_api_calls, _api_calls_used, pc, run,
                 progress_calls, result, phases, external_check, reclean>>

unfold_vars == <<datum, aggregated_from, unfolded>>

graph_vars == <<graph_call, graph_result, repaired>>

lineage_vars ==
    <<lineage, add_calls, history_seen, lineage_answer, lineage_file, exported, loaded>>

\* the session services: the lineage, the cache and the model wrapper
cache_vars == <<cache_entries, clock, stored, joined_calls, cache_got>>

wrapper_vars == <<wrapper, fit_call, worker, wrapper_outcome, fit_completed>>

enrich_vars == <<enrich_call, enrich_result>>

caller_vars == <<callers>>

service_vars == <<lineage_vars, cache_vars, wrapper_vars, enrich_vars, caller_vars>>

vars == <<export_vars, unfold_vars, graph_vars, service_vars>>

\* quality/models.py ExportResult, with the defaults of its fields.  Left out:
\* processing_time_seconds (a wall-clock reading) and task_type (the value of
\* utils.detect_task_type, which no modelled step reads).
ExportResultDefaults ==
    [is_ready |-> FALSE, summary |-> <<>>, warnings |-> <<>>, cleaning_actions |-> <<>>,
     cleaned_df |-> None, original_row_count |-> 0, cleaned_row_count |-> 0,
     original_col_count |-> 0, cleaned_col_count |-> 0, target_column |-> <<>>,
     validation_score |-> None, api_calls_used |-> 0]


\* ------------------------------------------------------------------------
\* ascent/unfold.py: the L0 -> L1 unfold
\* ------------------------------------------------------------------------

MaxVectorLen == 3
MaxUnfolds == 2

\* the values a parent vector is made of
VectorValues == {78, 85, 90}

\* the vectors a datum is aggregated from
Vectors == UNION {[1..n -> VectorValues] : n \in 1..MaxVectorLen}

\* the strings of unfold.py and of its inputs
UnfoldText ==
    [ scores |-> <<"s","c","o","r","e","s">>,
      mean |-> <<"m","e","a","n">>,
      sum |-> <<"s","u","m">>,
      count |-> <<"c","o","u","n","t">>,
      none |-> <<"N","o","n","e">>,
      unfolded_from_l0 |-> <<"U","n","f","o","l","d","e","d"," ","f","r","o","m"," ","L","0",
        " ","d","a","t","u","m"," ","(","a","g","g","r","e","g","a","t","i","o","n",":"," ">>,
      close_paren |-> <<")">> ]

AggregationMethods == {UnfoldText.mean, UnfoldText.sum, UnfoldText.count}

\* Series.name of the parent vector: a str, or None
SeriesNames == {None, Some(UnfoldText.scores)}

\* str(x) of an optional str
PyStr(o) == IF IsNone(o) THEN UnfoldText.none ELSE TheValue(o)

RECURSIVE SumSeq(_)
SumSeq(s) == IF s = <<>> THEN 0 ELSE s[1] + SumSeq(Tail(s))

\* the scalar of an aggregation, as the fraction num/den
aggregate(vals, method) ==
    IF method = UnfoldText.mean THEN [num |-> SumSeq(vals), den |-> Len(vals)]
    ELSE IF method = UnfoldText.sum THEN [num |-> SumSeq(vals), den |-> 1]
    ELSE [num |-> Len(vals), den |-> 1]

\* complexity.Level0Dataset(value, parent_data, aggregation_method): the
\* datum has a parent when it was given one
Level0Dataset(value, parent_data, aggregation_method) ==
    [level |-> "L0", value |-> value, parent_data |-> parent_data,
     has_parent |-> ~IsNone(parent_data), aggregation_method |-> aggregation_method]

\* complexity.Level1Dataset(data, name), with the _metadata attribute
Level1Dataset(data, name) == [level |-> "L1", data |-> data, name |-> name, _metadata |-> None]


\* an unfold that hands the parent back in reverse order
unfold_reversed(d, validate_parent) ==
    IF d.level # "L0" THEN Raised("TypeError")
    ELSE IF IsNone(d.parent_data) THEN Raised("NoParentError")
    ELSE LET series == TheValue(d.parent_data) IN
         Returned(Level1Dataset([series EXCEPT !.vals = [i \in 1..Len(@) |-> @[Len(@) + 1 - i]]],
                                PyStr(series.name)))

\* an unfold without the check of lines 132-134: with validation off, a
\* datum without a parent unfolds to a vector made of its value
unfold_unchecked(d, validate_parent) ==
    IF d.level # "L0" THEN Raised("TypeError")
    ELSE IF validate_parent /\ ~d.has_parent THEN Raised("NoParentError")
    ELSE LET series == IF IsNone(d.parent_data)
                       THEN [name |-> None, vals |-> <<d.value.num>>]
                       ELSE TheValue(d.parent_data)
         IN  Returned(Level1Dataset(series, PyStr(series.name)))

\* unfold_l0_to_l1(datum, validate_parent)
unfold_l0_to_l1(d, validate_parent) ==
    IF d.level # "L0" THEN Raised("TypeError")
    ELSE IF validate_parent /\ ~d.has_parent THEN Raised("NoParentError")
    ELSE LET parent_series == d.parent_data IN
         IF IsNone(parent_series) THEN Raised("NoParentError")
         ELSE LET series == TheValue(parent_series)
                  vector_name == series.name
                  l1 == Level1Dataset(series, PyStr(vector_name))
              IN  Returned([l1 EXCEPT !._metadata =
                      Some([unfolded_from |-> d.value,
                            aggregation_method |-> d.aggregation_method,
                            original_length |-> Len(series.vals),
                            source_operation |-> UnfoldText.unfolded_from_l0 \o d.aggregation_method
                                                 \o UnfoldText.close_paren])])

UnfoldIdle ==
    /\ datum = None
    /\ aggregated_from = None
    /\ unfolded = <<>>

\* a vector is aggregated to a datum that keeps the vector as its parent
AggregateVector(vals, name, method) ==
    /\ IsNone(datum)
    /\ datum' = Some(Level0Dataset(aggregate(vals, method),
                                   Some([name |-> name, vals |-> vals]), method))
    /\ aggregated_from' = Some(vals)
    /\ unfolded' = <<>>
    /\ UNCHANGED <<export_vars, graph_vars, service_vars>>

\* a datum is made without a parent vector; has_parent is whatever the
\* object says when the payload is null
MakeParentlessDatum(value, method, says_has_parent) ==
    /\ IsNone(datum)
    /\ datum' = Some([Level0Dataset([num |-> value, den |-> 1], None, method)
                         EXCEPT !.has_parent = says_has_parent])
    /\ aggregated_from' = None
    /\ unfolded' = <<>>
    /\ UNCHANGED <<export_vars, graph_vars, service_vars>>

\* the caller holds a Level1Dataset where a datum is expected
MakeNonDatum(vals, name) ==
    /\ IsNone(datum)
    /\ datum' = Some(Level1Dataset([name |-> name, vals |-> vals], PyStr(name)))
    /\ aggregated_from' = None
    /\ unfolded' = <<>>
    /\ UNCHANGED <<export_vars, graph_vars, service_vars>>

\* one call of unfold_l0_to_l1 on the datum
Unfold(validate_parent) ==
    /\ ~IsNone(datum)
    /\ Len(unfolded) < MaxUnfolds
    /\ unfolded' = Append(unfolded, [validate_parent |-> validate_parent,
                                     outcome |-> unfold_l0_to_l1(TheValue(datum),
                                                                 validate_parent)])
    /\ UNCHANGED <<datum, aggregated_from, export_vars, graph_vars, service_vars>>

\* the caller lets go of the datum
DropDatum ==
    /\ ~IsNone(datum)
    /\ datum' = None
    /\ aggregated_from' = None
    /\ unfolded' = <<>>
    /\ UNCHANGED <<export_vars, graph_vars, service_vars>>

UnfoldNext ==
    \/ \E vals \in Vectors, name \in SeriesNames, method \in AggregationMethods :
          AggregateVector(vals, name, method)
    \/ \E value \in VectorValues, method \in AggregationMethods, says \in BOOLEAN :
          MakeParentlessDatum(value, method, says)
    \/ \E vals \in Vectors, name \in SeriesNames : MakeNonDatum(vals, name)
    \/ \E validate_parent \in BOOLEAN : Unfold(validate_parent)
    \/ DropDatum

\* ------------------------------------------------------------------------
\* ascent/graph_builder.py: the L2 -> L3 graph
\* ------------------------------------------------------------------------

\* the strings of graph_builder.py and of its inputs
GraphText ==
    [ row |-> <<"r","o","w">>,
      belongs_to |-> <<"b","e","l","o","n","g","s","_","t","o">>,
      category |-> <<"c","a","t","e","g","o","r","y">>,
      score |-> <<"s","c","o","r","e">>,
      region |-> <<"r","e","g","i","o","n">>,
      school_id |-> <<"s","c","h","o","o","l","_","i","d">>,
      l2_table |-> <<"L","2","_","t","a","b","l","e">>,
      built_graph_extracting |-> <<"B","u","i","l","t"," ","g","r","a","p","h"," ","e","x","t",
        "r","a","c","t","i","n","g"," ","'">>,
      as_entities |-> <<"'"," ","a","s"," ","e","n","t","i","t","i","e","s">> ]

\* the Python int of a whole-number cell
IntOf(c) == c.v \div 2

\* Series.unique(): the distinct values in order of first appearance, a
\* missing value among them
RECURSIVE unique(_)
unique(vals) ==
    IF vals = <<>> THEN <<>>
    ELSE LET front == unique(SubSeq(vals, 1, Len(vals) - 1))
             last == vals[Len(vals)]
         IN  IF \E i \in 1..Len(front) : front[i] = last THEN front ELSE Append(front, last)

\* bool(df.index.name)
Truthy(name) == ~IsNone(name) /\ TheValue(name) # <<>>

\* nx.DiGraph(): nodes and edges in insertion order, each with its attributes
EmptyGraph == [nodes |-> <<>>, edges |-> <<>>]

HasNode(G, id) == \E i \in 1..Len(G.nodes) : G.nodes[i].id = id
HasEdge(G, u, v) == \E i \in 1..Len(G.edges) : G.edges[i].u = u /\ G.edges[i].v = v

\* G.add_node(id, node_type=..., entity_type=...): a node already there keeps
\* its place and takes the new attributes
add_node(G, id, node_type, entity_type) ==
    LET node == [id |-> id, node_type |-> node_type, entity_type |-> entity_type] IN
    IF HasNode(G, id)
    THEN [G EXCEPT !.nodes = [i \in 1..Len(G.nodes) |->
                                 IF G.nodes[i].id = id THEN node ELSE G.nodes[i]]]
    ELSE [G EXCEPT !.nodes = Append(G.nodes, node)]

\* the node G.add_edge makes for an endpoint that is not in the graph
EnsureNode(G, id) ==
    IF HasNode(G, id) THEN G
    ELSE [G EXCEPT !.nodes = Append(G.nodes, [id |-> id, node_type |-> None,
                                              entity_type |-> None])]

\* G.add_edge(u, v, **edge_attrs): an edge already there takes the new
\* attributes
add_edge(G, u, v, edge_attrs) ==
    LET G2 == EnsureNode(EnsureNode(G, u), v)
        edge == [u |-> u, v |-> v, attrs |-> edge_attrs]
    IN  IF HasEdge(G2, u, v)
        THEN [G2 EXCEPT !.edges = [i \in 1..Len(G2.edges) |->
                                      IF G2.edges[i].u = u /\ G2.edges[i].v = v
                                      THEN edge ELSE G2.edges[i]]]
        ELSE [G2 EXCEPT !.edges = Append(G2.edges, edge)]

\* G.degree(node) of a DiGraph: in-degree plus out-degree
degree(G, id) ==
    Cardinality({i \in 1..Len(G.edges) : G.edges[i].u = id})
    + Cardinality({i \in 1..Len(G.edges) : G.edges[i].v = id})

\* an orphan check that looks at the extracted nodes only
validate_extracted_nodes_only(G) ==
    LET extracted(node) == node.node_type = Some("extracted") /\ degree(G, node.id) = 0
        found == SelectSeq(G.nodes, extracted)
    IN  [i \in 1..Len(found) |-> found[i].id]

\* validate_no_orphan_nodes(graph): the nodes of degree 0, in node order
validate_no_orphan_nodes(G) ==
    LET ids == [i \in 1..Len(G.nodes) |-> G.nodes[i].id]
        isolated(id) == degree(G, id) = 0
    IN  SelectSeq(ids, isolated)

\* lines 149-151: one "original" node per row
original_entities(df) ==
    IF Truthy(df.index.name) THEN df.index.labels
    ELSE [i \in 1..df.nrows |-> Num(i - 1)]

RECURSIVE AddOriginalNodes(_, _, _)
AddOriginalNodes(G, entities, i) ==
    IF i > Len(entities) THEN G
    ELSE AddOriginalNodes(add_node(G, entities[i], Some("original"), Some(GraphText.row)),
                          entities, i + 1)

\* lines 154-157: one "extracted" node per distinct value that is not missing
RECURSIVE AddExtractedNodes(_, _, _, _)
AddExtractedNodes(G, new_entities, entity_column, i) ==
    IF i > Len(new_entities) THEN G
    ELSE AddExtractedNodes(
             IF ~isna(new_entities[i])
             THEN add_node(G, new_entities[i], Some("extracted"), Some(entity_column))
             ELSE G,
             new_entities, entity_column, i + 1)

\* list(df.index).index(idx), counted from 0
ListIndex(labels, idx) ==
    (CHOOSE i \in 1..Len(labels) : labels[i] = idx /\ \A j \in 1..(i - 1) : labels[j] # idx) - 1

\* line 161, for the row at position pos (from 1): the node of the row, or
\* the IndexError of range(len(df))[idx]
OriginalEntity(df, pos) ==
    LET idx == df.index.labels[pos] IN
    IF Truthy(df.index.name) THEN Returned(idx)
    ELSE IF idx.k = "num"
         THEN LET n == IntOf(idx) IN
              IF 0 <= n /\ n < df.nrows THEN Returned(Num(n))
              ELSE IF -df.nrows <= n /\ n < 0 THEN Returned(Num(df.nrows + n))
              ELSE Raised("IndexError")
         ELSE Returned(Num(ListIndex(df.index.labels, idx)))

\* lines 160-174: one edge per row whose entity is not missing
RECURSIVE AddEdges(_, _, _, _, _, _)
AddEdges(G, df, entity_column, value_column, relationship_type, pos) ==
    IF pos > df.nrows THEN Returned(G)
    ELSE LET original_entity == OriginalEntity(df, pos)
             new_entity == Col(df, entity_column).vals[pos]
         IN  IF ~IsNone(original_entity.raised) THEN original_entity
             ELSE IF ~isna(new_entity)
             THEN LET weight == IF ~IsNone(value_column) /\ TheValue(value_column) # <<>>
                                   /\ HasColumn(df, TheValue(value_column))
                                THEN Some(Col(df, TheValue(value_column)).vals[pos])
                                ELSE None
                      edge_attrs == [relationship |-> relationship_type,
                                     source_column |-> entity_column,
                                     weight |-> weight]
                  IN  AddEdges(add_edge(G, TheValue(original_entity.returned), new_entity,
                                        edge_attrs),
                               df, entity_column, value_column, relationship_type, pos + 1)
             ELSE AddEdges(G, df, entity_column, value_column, relationship_type, pos + 1)

\* complexity.Level2Dataset(df) and complexity.Level3Dataset(G)
Level2Dataset(df) == [level |-> "L2", data |-> df]
Level3Dataset(G) == [level |-> "L3", data |-> G, _metadata |-> None]

\* OrphanNodeError, whose message lists the orphans
RaisedOrphans(orphans) ==
    [raised |-> Some("OrphanNodeError"), returned |-> None, orphans |-> orphans]

\* build_l2_to_l3_graph(table, entity_column, value_column, relationship_type,
\*                      validate_orphans)
build_l2_to_l3_graph(table, entity_column, value_column, relationship_type, validate_orphans) ==
    IF table.level # "L2" THEN Raised("TypeError")
    ELSE LET df == table.data IN
    IF ~HasColumn(df, entity_column) THEN Raised("ValueError")
    ELSE LET G1 == AddOriginalNodes(EmptyGraph, original_entities(df), 1)
             new_entities == unique(Col(df, entity_column).vals)
             G2 == AddExtractedNodes(G1, new_entities, entity_column, 1)
             built == AddEdges(G2, df, entity_column, value_column, relationship_type, 1)
         IN  IF ~IsNone(built.raised) THEN built
             ELSE LET G == TheValue(built.returned)
                      orphans == IF validate_orphans THEN validate_no_orphan_nodes(G)
                                 ELSE <<>>
                  IN  IF validate_orphans /\ Len(orphans) > 0 THEN RaisedOrphans(orphans)
                      ELSE Returned([Level3Dataset(G) EXCEPT !._metadata =
                               Some([built_from |-> GraphText.l2_table,
                                     entity_column |-> entity_column,
                                     relationship_type |-> relationship_type,
                                     node_count |-> Len(G.nodes),
                                     edge_count |-> Len(G.edges),
                                     bipartite |-> TRUE,
                                     source_operation |-> GraphText.built_graph_extracting
                                         \o entity_column \o GraphText.as_entities])])

\* remove_orphan_nodes(graph): the graph after graph.remove_nodes_from(orphans),
\* which is the graph the caller gave and the value returned
remove_orphan_nodes(G) ==
    LET orphans == validate_no_orphan_nodes(G)
        kept(node) == \A i \in 1..Len(orphans) : orphans[i] # node.id
        keptEdge(edge) == \A i \in 1..Len(orphans) : orphans[i] # edge.u /\ orphans[i] # edge.v
    IN  [nodes |-> SelectSeq(G.nodes, kept), edges |-> SelectSeq(G.edges, keptEdge)]

\* ---- the tables the builder is called with ----

MaxGraphRows == 3

\* the values of the entity column: missing, a whole number, two labels
EntityValues == {NaN, Num(1), Str(1), Str(2)}

EntityVectors == UNION {[1..n -> EntityValues] : n \in 0..MaxGraphRows}

\* the indexes a table comes with
IndexKinds == {"range", "named_labels", "named_ints", "named_repeated", "unnamed_labels",
               "unnamed_shifted", "unnamed_reversed", "unnamed_negative"}

\* the labels "row_a", "row_b", ... are Str(11), Str(12), ...
TableIndex(kind, n) ==
    CASE kind = "range" ->
           [name |-> None, labels |-> [i \in 1..n |-> Num(i - 1)]]
      [] kind = "named_labels" ->
           [name |-> Some(GraphText.school_id), labels |-> [i \in 1..n |-> Str(10 + i)]]
      [] kind = "named_ints" ->
           [name |-> Some(GraphText.school_id), labels |-> [i \in 1..n |-> Num(i)]]
      [] kind = "named_repeated" ->
           [name |-> Some(GraphText.school_id), labels |-> [i \in 1..n |-> Str(11)]]
      [] kind = "unnamed_labels" ->
           [name |-> None, labels |-> [i \in 1..n |-> Str(10 + i)]]
      [] kind = "unnamed_shifted" ->
           [name |-> None, labels |-> [i \in 1..n |-> Num(i)]]
      [] kind = "unnamed_reversed" ->
           [name |-> None, labels |-> [i \in 1..n |-> Num(n - i)]]
      [] kind = "unnamed_negative" ->
           [name |-> None, labels |-> [i \in 1..n |-> Num(0 - i)]]

Table(kind, entities) ==
    [index |-> TableIndex(kind, Len(entities)),
     nrows |-> Len(entities),
     cols  |-> <<[name |-> GraphText.category, dtype |-> "object", vals |-> entities],
                 [name |-> GraphText.score, dtype |-> "numeric",
                  vals |-> [i \in 1..Len(entities) |-> Num(60 + i)]]>>]

Tables == {Table(kind, entities) : kind \in IndexKinds, entities \in EntityVectors}

GraphCalls ==
    [table : {Level2Dataset(t) : t \in Tables},
     entity_column : {GraphText.category},
     value_column : {None, Some(GraphText.score), Some(GraphText.region)},
     relationship_type : {GraphText.belongs_to},
     validate_orphans : BOOLEAN]
    \cup
    [table : {Level2Dataset(Table("range", <<Str(1), Str(2)>>))},
     entity_column : {GraphText.region},
     value_column : {None},
     relationship_type : {GraphText.belongs_to},
     validate_orphans : BOOLEAN]
    \cup
    [table : {Level1Dataset([name |-> Some(UnfoldText.scores), vals |-> <<85, 90>>], UnfoldText.scores)},
     entity_column : {GraphText.category},
     value_column : {None},
     relationship_type : {GraphText.belongs_to},
     validate_orphans : BOOLEAN]

GraphIdle ==
    /\ graph_call = None
    /\ graph_result = None
    /\ repaired = None

\* one call of build_l2_to_l3_graph
BuildGraph(call) ==
    /\ IsNone(graph_call)
    /\ graph_call' = Some(call)
    /\ graph_result' = Some(build_l2_to_l3_graph(call.table, call.entity_column,
                                                 call.value_column, call.relationship_type,
                                                 call.validate_orphans))
    /\ repaired' = None
    /\ UNCHANGED <<export_vars, unfold_vars, service_vars>>

\* remove_orphan_nodes(l3.get_data()) on the graph that was returned: the
\* nodes are removed from that graph in place, so the Level3Dataset holds the
\* repaired graph under the metadata of the build, and the same graph is the
\* value returned
RemoveOrphans ==
    /\ ~IsNone(graph_result)
    /\ ~IsNone(TheValue(graph_result).returned)
    /\ IsNone(repaired)
    /\ LET l3 == TheValue(TheValue(graph_result).returned)
           graph == remove_orphan_nodes(l3.data)
       IN  /\ graph_result' = Some([TheValue(graph_result) EXCEPT
                                       !.returned = Some([l3 EXCEPT !.data = graph])])
           /\ repaired' = Some(graph)
    /\ UNCHANGED <<graph_call, export_vars, unfold_vars, service_vars>>

\* the caller lets go of the result
DropGraph ==
    /\ ~IsNone(graph_call)
    /\ graph_call' = None
    /\ graph_result' = None
    /\ repaired' = None
    /\ UNCHANGED <<export_vars, unfold_vars, service_vars>>

GraphNext ==
    \/ \E call \in GraphCalls : BuildGraph(call)
    \/ RemoveOrphans
    \/ DropGraph

\* ------------------------------------------------------------------------
\* redesign/lineage.py: the lineage of a dataset
\* ------------------------------------------------------------------------

\* the most operations one lineage is given
MaxOperations == 2

\* intuitiveness.complexity.ComplexityLevel: the members, by name
ComplexityLevel ==
    [LEVEL_0 |-> [name |-> "LEVEL_0", value |-> 0],
     LEVEL_1 |-> [name |-> "LEVEL_1", value |-> 1],
     LEVEL_2 |-> [name |-> "LEVEL_2", value |-> 2],
     LEVEL_3 |-> [name |-> "LEVEL_3", value |-> 3],
     LEVEL_4 |-> [name |-> "LEVEL_4", value |-> 4]]

\* A Python value of a parameters or metadata dict is [t, v]: t is its type
\* ("dict", "list", "tuple", "str", "int") and v what it holds; a dict holds a
\* function of its str keys.  A JSON value is [j, v] in the same way.

\* json.dump: the JSON value written for a Python value.  A list and a tuple
\* are both written as an array.
RECURSIVE json_dump(_)
json_dump(value) ==
    CASE value.t = "dict" ->
             [j |-> "object", v |-> [k \in DOMAIN value.v |-> json_dump(value.v[k])]]
      [] value.t \in {"list", "tuple"} ->
             [j |-> "array", v |-> [i \in 1..Len(value.v) |-> json_dump(value.v[i])]]
      [] value.t = "str" -> [j |-> "string", v |-> value.v]
      [] value.t = "int" -> [j |-> "number", v |-> value.v]

\* json.load: the Python value read for a JSON value.  An array is read as a
\* list.
RECURSIVE json_load(_)
json_load(doc) ==
    CASE doc.j = "object" ->
             [t |-> "dict", v |-> [k \in DOMAIN doc.v |-> json_load(doc.v[k])]]
      [] doc.j = "array" ->
             [t |-> "list", v |-> [i \in 1..Len(doc.v) |-> json_load(doc.v[i])]]
      [] doc.j = "string" -> [t |-> "str", v |-> doc.v]
      [] doc.j = "number" -> [t |-> "int", v |-> doc.v]

\* `d or {}` for an optional dict d: None and the empty dict give a new empty
\* dict
or_empty_dict(d) ==
    IF IsNone(d) \/ DOMAIN TheValue(d).v = {} THEN [t |-> "dict", v |-> <<>>] ELSE TheValue(d)

\* datetime.isoformat(): a datetime is [second, microsecond]; the text has
\* the seconds, and the microseconds when they are not 0
isoformat(dt) == IF dt.microsecond = 0 THEN <<dt.second>> ELSE <<dt.second, dt.microsecond>>

\* datetime.fromisoformat()
fromisoformat(text) ==
    [second |-> text[1], microsecond |-> IF Len(text) > 1 THEN text[2] ELSE 0]

\* SourceReference.to_dict
to_dict(ref) ==
    [operation_type   |-> ref.operation_type,
     input_level      |-> ref.input_level.name,
     output_level     |-> ref.output_level.name,
     timestamp        |-> isoformat(ref.timestamp),
     parameters       |-> ref.parameters,
     duration_ms      |-> ref.duration_ms,
     row_count_before |-> ref.row_count_before,
     row_count_after  |-> ref.row_count_after]

\* SourceReference.from_dict
from_dict(data) ==
    [operation_type   |-> data.operation_type,
     input_level      |-> ComplexityLevel[data.input_level],
     output_level     |-> ComplexityLevel[data.output_level],
     timestamp        |-> fromisoformat(data.timestamp),
     parameters       |-> data.parameters,
     duration_ms      |-> data.duration_ms,
     row_count_before |-> data.row_count_before,
     row_count_after  |-> data.row_count_after]

\* DataLineage.__init__, at the time `now`
DataLineage(metadata, now) ==
    [operations |-> <<>>, metadata |-> or_empty_dict(metadata), _created_at |-> now]

\* an add_operation that puts the new record in front of the others
add_operation_in_front(self, call, now) ==
    [self EXCEPT !.operations =
        <<[call EXCEPT !.timestamp = IF IsNone(@) THEN now ELSE TheValue(@),
                       !.parameters = or_empty_dict(@)]>> \o @]

\* DataLineage.add_operation, called at the time `now` with the arguments
\* `call`: the object after the call
add_operation(self, call, now) ==
    [self EXCEPT !.operations =
        Append(@, [call EXCEPT !.timestamp = IF IsNone(@) THEN now ELSE TheValue(@),
                               !.parameters = or_empty_dict(@)])]

\* DataLineage.get_history
get_history(self) == [i \in 1..Len(self.operations) |-> to_dict(self.operations[i])]

\* DataLineage.export: the document json.dump writes
export(self) ==
    [metadata          |-> json_dump(self.metadata),
     created_at        |-> isoformat(self._created_at),
     total_operations  |-> Len(self.operations),
     total_duration_ms |-> SumSeq([i \in 1..Len(self.operations) |->
                                      self.operations[i].duration_ms]),
     operations        |-> [i \in 1..Len(self.operations) |->
                               [to_dict(self.operations[i]) EXCEPT
                                   !.parameters = json_dump(@)]]]

\* DataLineage.load: the object made of the document json.load reads
load(doc) ==
    [operations  |-> [i \in 1..Len(doc.operations) |->
                         from_dict([doc.operations[i] EXCEPT !.parameters = json_load(@)])],
     metadata    |-> or_empty_dict(Some(json_load(doc.metadata))),
     _created_at |-> fromisoformat(doc.created_at)]

\* the inputs of the lineage: the readings of the clock, the metadata of the
\* constructor and the arguments of add_operation (duration_ms in tenths of
\* a millisecond)
LineageInputs ==
    [clock    |-> {[second |-> 10, microsecond |-> 0], [second |-> 20, microsecond |-> 500]},
     metadata |-> {None,
                   Some([t |-> "dict",
                         v |-> [session_id |-> [t |-> "str", v |-> "abc123"]]])},
     calls    |->
        {[operation_type |-> "L4->L3", input_level |-> ComplexityLevel.LEVEL_4,
          output_level |-> ComplexityLevel.LEVEL_3, parameters |-> None, duration_ms |-> 0,
          row_count_before |-> None, row_count_after |-> None, timestamp |-> None],
         [operation_type |-> "L1->L0", input_level |-> ComplexityLevel.LEVEL_1,
          output_level |-> ComplexityLevel.LEVEL_0,
          parameters |-> Some([t |-> "dict",
                               v |-> [files |-> [t |-> "list",
                                                 v |-> <<[t |-> "str", v |-> "file1.csv"],
                                                         [t |-> "str", v |-> "file2.csv"]>>],
                                      options |-> [t |-> "dict",
                                                   v |-> [ddof |-> [t |-> "int", v |-> 1]]]]]),
          duration_ms |-> 12505, row_count_before |-> Some(100), row_count_after |-> Some(1),
          timestamp |-> Some([second |-> 5, microsecond |-> 250])],
         [operation_type |-> "L0->L1", input_level |-> ComplexityLevel.LEVEL_0,
          output_level |-> ComplexityLevel.LEVEL_1,
          parameters |-> Some([t |-> "dict", v |-> <<>>]),
          duration_ms |-> 30, row_count_before |-> Some(0), row_count_after |-> None,
          timestamp |-> Some([second |-> 7, microsecond |-> 0])],
         [operation_type |-> "L3->L2", input_level |-> ComplexityLevel.LEVEL_3,
          output_level |-> ComplexityLevel.LEVEL_2,
          parameters |-> Some([t |-> "dict",
                               v |-> [shape |-> [t |-> "tuple",
                                                 v |-> <<[t |-> "int", v |-> 3],
                                                         [t |-> "int", v |-> 2]>>]]]),
          duration_ms |-> 7, row_count_before |-> Some(3), row_count_after |-> Some(3),
          timestamp |-> None]}]

\* a lineage just constructed without metadata; nothing asked of it yet
LineageIdle ==
    /\ lineage = DataLineage(None, [second |-> 0, microsecond |-> 0])
    /\ add_calls = <<>>
    /\ history_seen = <<>>
    /\ lineage_answer = None
    /\ lineage_file = None
    /\ exported = None
    /\ loaded = None

\* DataLineage(metadata): the session starts a new lineage
Construct(metadata, now) ==
    /\ lineage' = DataLineage(metadata, now)
    /\ add_calls' = <<>>
    /\ history_seen' = <<>>
    /\ lineage_answer' = None
    /\ lineage_file' = None
    /\ exported' = None
    /\ loaded' = None
    /\ UNCHANGED <<export_vars, unfold_vars, graph_vars, enrich_vars, caller_vars, cache_vars, wrapper_vars>>

\* lineage.add_operation(...)
AddOperation(call, now) ==
    /\ Len(lineage.operations) < MaxOperations
    /\ lineage' = add_operation(lineage, call, now)
    /\ add_calls' = Append(add_calls, call)
    /\ UNCHANGED <<history_seen, lineage_answer, lineage_file, exported, loaded,
                   export_vars, unfold_vars, graph_vars, enrich_vars, caller_vars, cache_vars, wrapper_vars>>

\* lineage.get_history()
GetHistory ==
    /\ history_seen' = get_history(lineage)
    /\ UNCHANGED <<lineage, add_calls, lineage_answer, lineage_file, exported, loaded,
                   export_vars, unfold_vars, graph_vars, enrich_vars, caller_vars, cache_vars, wrapper_vars>>

\* lineage.get_operations_by_level(level)
GetOperationsByLevel(level) ==
    /\ lineage_answer' =
           Some(SelectSeq(lineage.operations,
                          LAMBDA op : op.input_level = level \/ op.output_level = level))
    /\ UNCHANGED <<lineage, add_calls, history_seen, lineage_file, exported, loaded,
                   export_vars, unfold_vars, graph_vars, enrich_vars, caller_vars, cache_vars, wrapper_vars>>

\* lineage.get_total_duration()
GetTotalDuration ==
    /\ lineage_answer' =
           Some(SumSeq([i \in 1..Len(lineage.operations) |-> lineage.operations[i].duration_ms]))
    /\ UNCHANGED <<lineage, add_calls, history_seen, lineage_file, exported, loaded,
                   export_vars, unfold_vars, graph_vars, enrich_vars, caller_vars, cache_vars, wrapper_vars>>

\* lineage.export(filepath); the caller lets go of what it had loaded from the
\* file before
Export ==
    /\ lineage_file' = Some(export(lineage))
    /\ exported' = Some(lineage)
    /\ loaded' = None
    /\ UNCHANGED <<lineage, add_calls, history_seen, lineage_answer,
                   export_vars, unfold_vars, graph_vars, enrich_vars, caller_vars, cache_vars, wrapper_vars>>

\* DataLineage.load(filepath), of the file of the last export
Load ==
    /\ ~IsNone(lineage_file)
    /\ loaded' = Some(load(TheValue(lineage_file)))
    /\ UNCHANGED <<lineage, add_calls, history_seen, lineage_answer, lineage_file, exported,
                   export_vars, unfold_vars, graph_vars, enrich_vars, caller_vars, cache_vars, wrapper_vars>>

LineageNext ==
    \/ \E metadata \in LineageInputs.metadata, now \in LineageInputs.clock :
          Construct(metadata, now)
    \/ \E call \in LineageInputs.calls, now \in LineageInputs.clock : AddOperation(call, now)
    \/ GetHistory
    \/ \E level \in {ComplexityLevel.LEVEL_0, ComplexityLevel.LEVEL_3} :
          GetOperationsByLevel(level)
    \/ GetTotalDuration
    \/ Export
    \/ Load

\* ------------------------------------------------------------------------
\* persistence/cache_manager.py: the session cache
\* ------------------------------------------------------------------------

CACHE_TTL_SECONDS == 3600

\* the clock advances MaxTicks times, half the default TTL at a time
MaxTicks == 3
ClockStep == CACHE_TTL_SECONDS \div 2
\* the most set_joined_dataset calls between two clear_all calls
MaxJoinedSets == 2

\* A cache key is [prefix, hash]: the text it starts with and, for a joined
\* dataset, the hash of the configuration that follows.
PlainKey(text) == [prefix |-> text, hash |-> {}]

\* an is_expired that also expires an entry whose age is its TTL
is_expired_at_ttl(entry, now) == now - entry.timestamp >= entry.ttl_seconds

\* CacheEntry.is_expired, at the time `now`
is_expired(entry, now) == now - entry.timestamp > entry.ttl_seconds

\* entries[key] = entry
PutEntry(entries, key, entry) ==
    [k \in DOMAIN entries \cup {key} |-> IF k = key THEN entry ELSE entries[k]]

\* del entries[key]
DelEntry(entries, key) == [k \in DOMAIN entries \ {key} |-> entries[k]]

\* CacheManager.set, at the time `now`: the entries after the call
set(entries, key, value, ttl_seconds, now) ==
    PutEntry(entries, key,
             [key |-> key, value |-> value, timestamp |-> now, ttl_seconds |-> ttl_seconds])

\* CacheManager.get, at the time `now`: what it returns, and the entries after
\* the call
get(entries, key, now) ==
    IF key \notin DOMAIN entries THEN [returned |-> None, entries |-> entries]
    ELSE IF is_expired(entries[key], now)
    THEN [returned |-> None, entries |-> DelEntry(entries, key)]
    ELSE [returned |-> Some(entries[key].value), entries |-> entries]

\* A configuration is a dict, written as the tuple of its <<key, value>> items
\* in insertion order; a key is [t, v]: its type ("str" or "int") and the
\* characters str(key) has.  json.dumps(data, sort_keys=True) writes every key
\* as a string, an int key by its digits, and the items in the order of their
\* keys: the text is fixed by the set of its (key text, value) items.  The
\* first 16 digits of the SHA-256 of two texts are taken to differ when the
\* texts differ.
_compute_hash(data) == {<<data[i][1].v, data[i][2]>> : i \in 1..Len(data)}

\* f"joined_dataset_{config_hash}"
JoinedKey(config) == [prefix |-> "joined_dataset_", hash |-> _compute_hash(config)]

\* the inputs of the cache: keys, values and TTLs of set; DataFrames and
\* configurations of set_joined_dataset
CacheInputs ==
    [keys    |-> {PlainKey("wizard_step"), PlainKey("user_selections")},
     values  |-> {1, 2},
     ttls    |-> {0, ClockStep, CACHE_TTL_SECONDS},
     frames  |-> {"df1", "df2"},
     configs |->
        { << <<[t |-> "str", v |-> <<"h","o","w">>], "inner">>,
             <<[t |-> "str", v |-> <<"o","n">>], "id">> >>,
          << <<[t |-> "str", v |-> <<"o","n">>], "id">>,
             <<[t |-> "str", v |-> <<"h","o","w">>], "inner">> >>,
          << <<[t |-> "str", v |-> <<"h","o","w">>], "outer">>,
             <<[t |-> "str", v |-> <<"o","n">>], "id">> >>,
          << <<[t |-> "int", v |-> <<"1">>], "id">> >>,
          << <<[t |-> "str", v |-> <<"1">>], "id">> >> }]

\* an empty cache at time 0; nothing asked of it yet
CacheIdle ==
    /\ cache_entries = <<>>
    /\ clock = 0
    /\ stored = <<>>
    /\ joined_calls = <<>>
    /\ cache_got = None

\* time passes
Tick ==
    /\ clock < MaxTicks * ClockStep
    /\ clock' = clock + ClockStep
    /\ cache_got' = None
    /\ UNCHANGED <<cache_entries, stored, joined_calls,
                   export_vars, unfold_vars, graph_vars, enrich_vars, caller_vars, lineage_vars, wrapper_vars>>

\* cache.set(key, value, ttl_seconds)
Set(key, value, ttl_seconds) ==
    /\ cache_entries' = set(cache_entries, key, value, ttl_seconds, clock)
    /\ stored' = PutEntry(stored, key, [value |-> value, timestamp |-> clock,
                                        ttl_seconds |-> ttl_seconds])
    /\ cache_got' = None
    /\ UNCHANGED <<clock, joined_calls,
                   export_vars, unfold_vars, graph_vars, enrich_vars, caller_vars, lineage_vars, wrapper_vars>>

\* cache.get(key)
Get(key) ==
    /\ cache_entries' = get(cache_entries, key, clock).entries
    /\ cache_got' = Some([key |-> key, config |-> <<>>, now |-> clock,
                          returned |-> get(cache_entries, key, clock).returned])
    /\ UNCHANGED <<clock, stored, joined_calls,
                   export_vars, unfold_vars, graph_vars, enrich_vars, caller_vars, lineage_vars, wrapper_vars>>

\* cache.invalidate(key)
Invalidate(key) ==
    /\ cache_entries' = DelEntry(cache_entries, key)
    /\ stored' = DelEntry(stored, key)
    /\ cache_got' = None
    /\ UNCHANGED <<clock, joined_calls,
                   export_vars, unfold_vars, graph_vars, enrich_vars, caller_vars, lineage_vars, wrapper_vars>>

\* cache.clear_all()
ClearAll ==
    /\ cache_entries' = <<>>
    /\ stored' = <<>>
    /\ joined_calls' = <<>>
    /\ cache_got' = None
    /\ UNCHANGED <<clock,
                   export_vars, unfold_vars, graph_vars, enrich_vars, caller_vars, lineage_vars, wrapper_vars>>

\* cache.set_joined_dataset(df, config)
SetJoinedDataset(df, config) ==
    /\ Len(joined_calls) < MaxJoinedSets
    /\ cache_entries' = set(cache_entries, JoinedKey(config), df, CACHE_TTL_SECONDS, clock)
    /\ stored' = PutEntry(stored, JoinedKey(config),
                          [value |-> df, timestamp |-> clock,
                           ttl_seconds |-> CACHE_TTL_SECONDS])
    /\ joined_calls' = Append(joined_calls, [df |-> df, config |-> config, at |-> clock])
    /\ cache_got' = None
    /\ UNCHANGED <<clock,
                   export_vars, unfold_vars, graph_vars, enrich_vars, caller_vars, lineage_vars, wrapper_vars>>

\* cache.get_joined_dataset(config)
GetJoinedDataset(config) ==
    /\ cache_entries' = get(cache_entries, JoinedKey(config), clock).entries
    /\ cache_got' = Some([key |-> JoinedKey(config), config |-> config, now |-> clock,
                          returned |-> get(cache_entries, JoinedKey(config), clock).returned])
    /\ UNCHANGED <<clock, stored, joined_calls,
                   export_vars, unfold_vars, graph_vars, enrich_vars, caller_vars, lineage_vars, wrapper_vars>>

\* set, get, invalidate and clear_all under a passing clock
CacheNext ==
    \/ Tick
    \/ \E key \in CacheInputs.keys, value \in CacheInputs.values, ttl \in CacheInputs.ttls :
          Set(key, value, ttl)
    \/ \E key \in CacheInputs.keys : Get(key)
    \/ \E key \in CacheInputs.keys : Invalidate(key)
    \/ ClearAll

\* the joined datasets under a passing clock
JoinedNext ==
    \/ Tick
    \/ \E df \in CacheInputs.frames, config \in CacheInputs.configs :
          SetJoinedDataset(df, config)
    \/ \E config \in CacheInputs.configs : GetJoinedDataset(config)
    \/ ClearAll

\* ------------------------------------------------------------------------
\* quality/tabpfn_wrapper.py: the wrapper of the external model
\* ------------------------------------------------------------------------

\* the inputs of the wrapper: the task types, the training sets of fit, how
\* the construction of a backend model goes, the three calls that need a
\* fitted model, and the exceptions the fit of a backend model raises:
\* "TimeoutError" is concurrent.futures.TimeoutError (the builtin TimeoutError
\* from Python 3.11 on), "Exception" any other
WrapperInputs ==
    [task_types |-> {"classification", "regression"},
     data       |-> {"A", "B"},
     inits      |-> {"ok", "not_installed", "raises"},
     calls      |-> {"predict", "predict_proba", "score"},
     exceptions |-> {"Exception", "TimeoutError"}]

\* an _initialize_backend that gives up when its first backend fails
_initialize_backend_first_only(prefer_local, client, local) ==
    LET backends == IF prefer_local THEN <<"local", "client">> ELSE <<"client", "local">>
        init_fn(name) == IF name = "client" THEN client = "ok" ELSE local = "ok"
    IN  IF init_fn(backends[1]) THEN [backend |-> Some(backends[1]), tried |-> <<backends[1]>>]
        ELSE [backend |-> None, tried |-> <<backends[1]>>]

\* TabPFNWrapper._initialize_backend with _init_client and _init_local: the
\* name of the first backend, in the order of preference, whose model could
\* be constructed, or None (the RuntimeError), and the backends whose init
\* function was called, in call order.  An init function gives False when its
\* package is not installed or the constructor of its model raises.
_initialize_backend(prefer_local, client, local) ==
    LET backends == IF prefer_local THEN <<"local", "client">> ELSE <<"client", "local">>
        init_fn(name) == IF name = "client" THEN client = "ok" ELSE local = "ok"
    IN  IF init_fn(backends[1]) THEN [backend |-> Some(backends[1]), tried |-> <<backends[1]>>]
        ELSE IF init_fn(backends[2]) THEN [backend |-> Some(backends[2]), tried |-> backends]
        ELSE [backend |-> None, tried |-> backends]

\* TabPFNWrapper.__init__: the object, or the RuntimeError of a wrapper without
\* a backend.  The model of the backend is [backend, fitted_on]: it is fitted
\* on the training set of the last fit call it completed.
TabPFNWrapper(task_type, prefer_local, client, local) ==
    LET init == _initialize_backend(prefer_local, client, local) IN
    IF IsNone(init.backend) THEN Raised("RuntimeError")
    ELSE Returned([task_type |-> task_type, prefer_local |-> prefer_local,
                   backend |-> init.backend,
                   model |-> [backend |-> TheValue(init.backend), fitted_on |-> None],
                   _fitted |-> FALSE])

\* predict, predict_proba or score without the test of self._fitted
predict_without_check(self, call) ==
    IF call = "predict_proba" /\ self.task_type # "classification"
    THEN Raised("ValueError") @@ [reached_model |-> FALSE]
    ELSE Returned(self.model.fitted_on) @@ [reached_model |-> TRUE]

\* TabPFNWrapper.predict, predict_proba and score: the RuntimeError of a model
\* that is not fitted, the ValueError of predict_proba on a regression, or
\* what the model of the backend gives (written as the training set it is
\* fitted on); reached_model tells whether the model was called
predict(self, call) ==
    IF ~self._fitted THEN Raised("RuntimeError") @@ [reached_model |-> FALSE]
    ELSE IF call = "predict_proba" /\ self.task_type # "classification"
    THEN Raised("ValueError") @@ [reached_model |-> FALSE]
    ELSE Returned(self.model.fitted_on) @@ [reached_model |-> TRUE]

\* no wrapper constructed
WrapperIdle ==
    /\ wrapper = None
    /\ fit_call = None
    /\ worker = None
    /\ wrapper_outcome = None
    /\ fit_completed = FALSE

\* TabPFNWrapper(task_type, prefer_local): a new object replaces the one held
\* when a backend initializes
ConstructWrapper(task_type, prefer_local, client, local) ==
    /\ IsNone(fit_call)
    /\ LET made == TabPFNWrapper(task_type, prefer_local, client, local) IN
       /\ wrapper' = made.returned
       /\ wrapper_outcome' =
              Some([call |-> "__init__", before |-> None,
                    args |-> [task_type |-> task_type, prefer_local |-> prefer_local,
                              client |-> client, local |-> local],
                    tried |-> _initialize_backend(prefer_local, client, local).tried]
                   @@ made @@ [reached_model |-> FALSE])
    /\ fit_completed' = FALSE
    /\ UNCHANGED <<fit_call, worker,
                   export_vars, unfold_vars, graph_vars, enrich_vars, caller_vars, lineage_vars, cache_vars>>

\* fit, lines 314-325 and 335-336: the call hands self.model.fit(X, y) to the
\* worker of a new executor and waits for its result, for at most the timeout.
\* Whether the model's fit ever returns is the backend's affair.
FitBegin(data, returns) ==
    /\ ~IsNone(wrapper)
    /\ IsNone(fit_call)
    /\ fit_call' = Some([data |-> data, phase |-> "result", before |-> TheValue(wrapper)])
    /\ worker' = Some([data |-> data, returns |-> returns, state |-> "running",
                       exception |-> None])
    /\ wrapper_outcome' = None
    /\ UNCHANGED <<wrapper, fit_completed,
                   export_vars, unfold_vars, graph_vars, enrich_vars, caller_vars, lineage_vars, cache_vars>>

\* the worker: self.model.fit(X, y) returns, and the model is fitted on (X, y)
WorkerReturns ==
    /\ ~IsNone(worker)
    /\ TheValue(worker).state = "running" /\ TheValue(worker).returns
    /\ wrapper' = Some([TheValue(wrapper) EXCEPT
                           !.model.fitted_on = Some(TheValue(worker).data)])
    /\ worker' = Some([TheValue(worker) EXCEPT !.state = "returned"])
    /\ UNCHANGED <<fit_call, wrapper_outcome, fit_completed,
                   export_vars, unfold_vars, graph_vars, enrich_vars, caller_vars, lineage_vars, cache_vars>>

\* the worker: self.model.fit(X, y) raises
WorkerRaises(exception) ==
    /\ ~IsNone(worker)
    /\ TheValue(worker).state = "running" /\ TheValue(worker).returns
    /\ worker' = Some([TheValue(worker) EXCEPT !.state = "raised",
                                               !.exception = Some(exception)])
    /\ UNCHANGED <<wrapper, fit_call, wrapper_outcome, fit_completed,
                   export_vars, unfold_vars, graph_vars, enrich_vars, caller_vars, lineage_vars, cache_vars>>

\* fit, lines 337-338 and 325-326: future.result gives the result of the
\* worker in time; the executor has nothing left to wait for; the object is
\* fitted
FitReturns ==
    /\ ~IsNone(fit_call)
    /\ TheValue(fit_call).phase = "result" /\ TheValue(worker).state = "returned"
    /\ wrapper' = Some([TheValue(wrapper) EXCEPT !._fitted = TRUE])
    /\ wrapper_outcome' = Some([call |-> "fit", before |-> Some(TheValue(fit_call).before)]
                                   @@ Returned("self") @@ [reached_model |-> TRUE])
    /\ fit_completed' = TRUE
    /\ fit_call' = None
    /\ worker' = None
    /\ UNCHANGED <<export_vars, unfold_vars, graph_vars, enrich_vars, caller_vars, lineage_vars, cache_vars>>

\* fit, lines 338-342: future.result raises the exception of the worker in
\* time.  `except FuturesTimeoutError` catches it when it is a
\* concurrent.futures.TimeoutError and TabPFNTimeoutError leaves fit, although
\* no timeout has passed; any other exception leaves fit as it is
FitRaises ==
    /\ ~IsNone(fit_call)
    /\ TheValue(fit_call).phase = "result" /\ TheValue(worker).state = "raised"
    /\ wrapper_outcome' = Some([call |-> "fit", before |-> Some(TheValue(fit_call).before)]
                                   @@ Raised(IF TheValue(worker).exception = Some("TimeoutError")
                                             THEN "TabPFNTimeoutError"
                                             ELSE TheValue(TheValue(worker).exception))
                                   @@ [reached_model |-> TRUE])
    /\ fit_call' = None
    /\ worker' = None
    /\ UNCHANGED <<wrapper, fit_completed,
                   export_vars, unfold_vars, graph_vars, enrich_vars, caller_vars, lineage_vars, cache_vars>>

\* fit, lines 338-342: the timeout passes with the worker still running;
\* future.result raises, TabPFNTimeoutError is raised inside the `with` block,
\* and the exit of the block, executor.shutdown(wait=True), waits for the worker
TimeoutPasses ==
    /\ ~IsNone(fit_call)
    /\ TheValue(fit_call).phase = "result" /\ TheValue(worker).state = "running"
    /\ fit_call' = Some([TheValue(fit_call) EXCEPT !.phase = "shutdown"])
    /\ UNCHANGED <<wrapper, worker, wrapper_outcome, fit_completed,
                   export_vars, unfold_vars, graph_vars, enrich_vars, caller_vars, lineage_vars, cache_vars>>

\* fit, lines 327-329: the worker has ended, the `with` block is left and
\* TabPFNTimeoutError reaches the caller
TimeoutRaised ==
    /\ ~IsNone(fit_call)
    /\ TheValue(fit_call).phase = "shutdown" /\ TheValue(worker).state # "running"
    /\ wrapper_outcome' = Some([call |-> "fit", before |-> Some(TheValue(fit_call).before)]
                                   @@ Raised("TabPFNTimeoutError") @@ [reached_model |-> TRUE])
    /\ fit_call' = None
    /\ worker' = None
    /\ UNCHANGED <<wrapper, fit_completed,
                   export_vars, unfold_vars, graph_vars, enrich_vars, caller_vars, lineage_vars, cache_vars>>

\* wrapper.predict(X), wrapper.predict_proba(X) or wrapper.score(X, y)
Predict(call) ==
    /\ ~IsNone(wrapper)
    /\ IsNone(fit_call)
    /\ wrapper_outcome' = Some([call |-> call, before |-> wrapper]
                                   @@ predict(TheValue(wrapper), call))
    /\ UNCHANGED <<wrapper, fit_call, worker, fit_completed,
                   export_vars, unfold_vars, graph_vars, enrich_vars, caller_vars, lineage_vars, cache_vars>>

WrapperNext ==
    \/ \E task_type \in WrapperInputs.task_types, prefer_local \in BOOLEAN,
          client \in WrapperInputs.inits, local \in WrapperInputs.inits :
          ConstructWrapper(task_type, prefer_local, client, local)
    \/ \E data \in WrapperInputs.data, returns \in BOOLEAN : FitBegin(data, returns)
    \/ WorkerReturns
    \/ \E exception \in WrapperInputs.exceptions : WorkerRaises(exception)
    \/ FitReturns
    \/ FitRaises
    \/ TimeoutPasses
    \/ TimeoutRaised
    \/ \E call \in WrapperInputs.calls : Predict(call)

\* ------------------------------------------------------------------------
\* ascent/enrich.py: the L1 -> L2 enrichment of a numeric vector
\* ------------------------------------------------------------------------

\* the longest vector that is enriched
MaxEnrichLen == 3

\* the strings of enrich.py and of its inputs
EnrichText ==
    [ high |-> <<"h","i","g","h">>,
      low |-> <<"l","o","w">>,
      mid |-> <<"m","i","d">>,
      medium |-> <<"m","e","d","i","u","m">>,
      unknown |-> <<"u","n","k","n","o","w","n">>,
      high_score |-> <<"h","i","g","h"," ","s","c","o","r","e">>,
      low_score |-> <<"l","o","w"," ","s","c","o","r","e">>,
      Low |-> <<"L","o","w">>,
      Medium |-> <<"M","e","d","i","u","m">>,
      High |-> <<"H","i","g","h">>,
      a |-> <<"a">>, b |-> <<"b">>, c |-> <<"c">>,
      keyword |-> <<"k","e","y","w","o","r","d">>,
      semantic |-> <<"s","e","m","a","n","t","i","c">>,
      enriched_l1 |-> <<"E","n","r","i","c","h","e","d"," ","L","1"," ","v","e","c","t","o","r",
        " ","w","i","t","h"," ">>,
      domains |-> <<" ","d","o","m","a","i","n","s">>,
      school_scores |-> <<"s","c","h","o","o","l","_","s","c","o","r","e","s">> ]

\* a threshold is written in tenths: 7 is 0.7
ThresholdOne == 10

\* Series.count(): the number of values that are not missing
count(vals) == Cardinality(NotNull(vals))

\* (n * x - sum of x)^2 summed over the values x that are not missing, n their
\* number, with x in the half units of a cell: 4 * n^2 * (n - 1) times the
\* variance Series.std() takes the root of (ddof = 1)
SquaredDeviations(vals) ==
    LET n == count(vals)
        total == SumSeq([i \in 1..Len(vals) |-> IF isna(vals[i]) THEN 0 ELSE vals[i].v])
    IN  SumSeq([i \in 1..Len(vals) |->
                   IF isna(vals[i]) THEN 0
                   ELSE (n * vals[i].v - total) * (n * vals[i].v - total)])

\* |value - median| >= threshold * std, squared on both sides.  Series.std()
\* of fewer than two values is NaN, and no comparison with NaN is true.
AtLeastThresholdAway(vals, value, threshold) ==
    LET n == count(vals)
        d == value.v - median(vals).v
    IN  /\ n >= 2
        /\ d * d * ThresholdOne * ThresholdOne * n * n * (n - 1)
               >= threshold * threshold * SquaredDeviations(vals)

\* next((d for d in domains if keyword in d.lower()), default)
FirstDomainWith(domains, keywords, default) ==
    LET has(d) == \E k \in keywords : IsSubstring(k, Lower(d))
        hits == {i \in 1..Len(domains) : has(domains[i])}
    IN  IF hits = {} THEN default
        ELSE domains[CHOOSE i \in hits : \A j \in hits : i <= j]

\* the three domains of the numeric branch, lines 186, 190 and 194
high_domain(domains) == FirstDomainWith(domains, {EnrichText.high}, domains[1])
low_domain(domains) == FirstDomainWith(domains, {EnrichText.low}, domains[Len(domains)])
mid_domain(domains) ==
    FirstDomainWith(domains, {EnrichText.mid, EnrichText.medium},
                    IF Len(domains) > 2 THEN domains[Len(domains) \div 2 + 1]
                    ELSE EnrichText.medium)

\* _categorize_numeric_values(series, domains, threshold): the category of
\* each value.  value >= median + threshold * std is value >= median and
\* |value - median| >= threshold * std, for a threshold that is not negative.
_categorize_numeric_values(series, domains, threshold) ==
    [i \in 1..Len(series.vals) |->
        LET value == series.vals[i] IN
        IF isna(value) THEN EnrichText.unknown
        ELSE IF value.v >= median(series.vals).v
                /\ AtLeastThresholdAway(series.vals, value, threshold)
             THEN high_domain(domains)
        ELSE IF value.v <= median(series.vals).v
                /\ AtLeastThresholdAway(series.vals, value, threshold)
             THEN low_domain(domains)
        ELSE mid_domain(domains)]

\* an enrich_l1_to_l2 that takes any threshold
enrich_l1_to_l2_any_threshold(vector, domains, threshold, use_semantic) ==
    IF vector.level # "L1" THEN Raised("TypeError")
    ELSE IF Len(domains) = 0 THEN Raised("ValueError")
    ELSE Returned(Level2Dataset([value |-> vector.data.vals,
                                 index |-> [i \in 1..Len(vector.data.vals) |-> i - 1],
                                 category |-> _categorize_numeric_values(vector.data, domains,
                                                                         threshold)]))

\* enrich_l1_to_l2(vector, domains, threshold, use_semantic) of a vector whose
\* Series is numeric.  `not domains` is true of None and of the empty list,
\* both written <<>>.  The table has the columns value, index and category.
enrich_l1_to_l2(vector, domains, threshold, use_semantic) ==
    IF vector.level # "L1" THEN Raised("TypeError")
    ELSE IF Len(domains) = 0 THEN Raised("ValueError")
    ELSE IF ~(0 <= threshold /\ threshold <= ThresholdOne) THEN Raised("ValueError")
    ELSE LET series == vector.data
             df == [value |-> series.vals,
                    index |-> [i \in 1..Len(series.vals) |-> i - 1],
                    category |-> _categorize_numeric_values(series, domains, threshold)]
         IN  Returned(Level2Dataset(df) @@
                 [_metadata |->
                     [enriched_from |-> vector.name,
                      domains |-> domains,
                      threshold |-> threshold,
                      matching_strategy |-> IF use_semantic THEN EnrichText.semantic
                                            ELSE EnrichText.keyword,
                      source_operation |-> EnrichText.enriched_l1 \o IntToStr(Len(domains))
                                           \o EnrichText.domains]])

\* ---- the calls of the enrichment ----

\* the values of a vector: missing, or a whole number
EnrichValues == {NaN, Num(1), Num(2), Num(4)}

EnrichVectors == UNION {[1..n -> EnrichValues] : n \in 1..MaxEnrichLen}

\* the domain lists: the two of the documentation, three with the key words
\* in capitals, lists without a key word, and the empty list
DomainLists ==
    { <<EnrichText.high_score, EnrichText.low_score>>,
      <<EnrichText.Low, EnrichText.Medium, EnrichText.High>>,
      <<EnrichText.a, EnrichText.b, EnrichText.c>>,
      <<EnrichText.a, EnrichText.b>>,
      <<EnrichText.a>>,
      <<>> }

\* the thresholds, in tenths: -0.1, 0.0, 0.5, 0.7 (the default), 1.0 and 1.1
Thresholds == {-1, 0, 5, 7, 10, 11}

\* what is passed as the vector when it is not one: a datum, a table
NonVectors ==
    { Level0Dataset([num |-> 85, den |-> 1], None, UnfoldText.mean),
      Level2Dataset([value |-> <<Num(1)>>, index |-> <<0>>, category |-> <<EnrichText.a>>]) }

EnrichCalls ==
    [vector : {Level1Dataset([name |-> None, vals |-> vals], EnrichText.school_scores) :
                  vals \in EnrichVectors},
     domains : DomainLists,
     threshold : Thresholds,
     use_semantic : {TRUE}]
    \cup
    [vector : NonVectors,
     domains : {<<EnrichText.high_score, EnrichText.low_score>>, <<>>},
     threshold : {7, 11},
     use_semantic : BOOLEAN]

EnrichIdle ==
    /\ enrich_call = None
    /\ enrich_result = None

\* one call of enrich_l1_to_l2
Enrich(call) ==
    /\ IsNone(enrich_call)
    /\ enrich_call' = Some(call)
    /\ enrich_result' = Some(enrich_l1_to_l2(call.vector, call.domains, call.threshold,
                                             call.use_semantic))
    /\ UNCHANGED <<export_vars, unfold_vars, graph_vars, lineage_vars, cache_vars,
                   wrapper_vars, caller_vars>>

\* the caller lets go of the result
DropEnriched ==
    /\ ~IsNone(enrich_call)
    /\ enrich_call' = None
    /\ enrich_result' = None
    /\ UNCHANGED <<export_vars, unfold_vars, graph_vars, lineage_vars, cache_vars,
                   wrapper_vars, caller_vars>>

EnrichNext ==
    \/ \E call \in EnrichCalls : Enrich(call)
    \/ DropEnriched

\* ---- the three transitions side by side, on few inputs ----

\* the calls of the enrichment with one vector, and with what is not a vector
FewEnrichCalls ==
    {call \in EnrichCalls :
        call.vector.level = "L1" => call.vector.data.vals = <<Num(1), Num(2), Num(4)>>}

\* the calls of the graph builder with one table, with a column the table
\* does not have, and with what is not a table
FewGraphCalls ==
    {call \in GraphCalls :
        \/ call.table.level # "L2"
        \/ call.entity_column = GraphText.region
        \/ call.table = Level2Dataset(Table("range", <<Str(1), Str(2), Str(1)>>))}

TransitionsNext ==
    \/ \E name \in SeriesNames, method \in AggregationMethods :
          AggregateVector(<<85, 90>>, name, method)
    \/ \E name \in SeriesNames : MakeNonDatum(<<85, 90>>, name)
    \/ \E validate_parent \in BOOLEAN : Unfold(validate_parent)
    \/ DropDatum
    \/ \E call \in FewEnrichCalls : Enrich(call)
    \/ \E call \in FewGraphCalls : BuildGraph(call)

\* ------------------------------------------------------------------------
\* quality/instant_export.py: check_and_export called from several threads
\* ------------------------------------------------------------------------

\* InstantExporter.__init__: the default of max_api_calls
DefaultMaxApiCalls == 5

\* the calling threads, and the calls each of them makes
Callers == {1, 2}
MaxCallsEach == 2

\* a thread between calls.  exporter is None for the InstantExporter the
\* threads share, or the exporter that instant_check_and_export made for the
\* call; loaded is the value `self._api_calls_used += 1` has read and not yet
\* written back.  History: calls_made, the number of calls begun; overlapped,
\* whether another call on the same exporter ran during this one;
\* external_calls, the fit and score calls of this call that returned.
IdleCaller ==
    [pc |-> "idle", exporter |-> None, loaded |-> None, api_calls_used |-> None,
     calls_made |-> 0, overlapped |-> FALSE, external_calls |-> 0]

CallersIdle == callers = [t \in Callers |-> IdleCaller]

\* what an action of one caller leaves alone, the shared counter apart
caller_frame ==
    <<unfold_vars, graph_vars, lineage_vars, cache_vars, wrapper_vars, enrich_vars,
      enable_tabpfn_validation, max_api_calls, pc, run, progress_calls, result, phases,
      external_check, reclean>>

\* the exporter of the call of thread t: self in check_and_export
Self(t) ==
    IF IsNone(callers[t].exporter)
    THEN [enable_tabpfn_validation |-> enable_tabpfn_validation,
          max_api_calls |-> max_api_calls,
          _api_calls_used |-> _api_calls_used]
    ELSE TheValue(callers[t].exporter)

\* the threads whose call is running on the shared exporter
Running == {t \in Callers : callers[t].pc \notin {"idle", "done"} /\ IsNone(callers[t].exporter)}

\* self._api_calls_used = value, in the call of thread t whose record becomes c
SetCounter(t, c, value) ==
    IF IsNone(callers[t].exporter)
    THEN /\ _api_calls_used' = value
         /\ callers' = [callers EXCEPT ![t] = c]
    ELSE /\ _api_calls_used' = _api_calls_used
         /\ callers' = [callers EXCEPT ![t] =
                [c EXCEPT !.exporter = Some([TheValue(@) EXCEPT !._api_calls_used = value])]]

\* exporter.check_and_export(df, target_column) on the shared exporter, lines
\* 132-157: the counter is reset; a dataset with a blocking issue returns an
\* ExportResult with the default api_calls_used.  PHASE 2 touches no attribute
\* of the exporter.
CallShared(t, valid) ==
    /\ callers[t].pc = "idle"
    /\ callers[t].calls_made < MaxCallsEach
    /\ _api_calls_used' = 0
    /\ callers' = [u \in Callers |->
          IF u = t
          THEN [pc |-> IF valid THEN "external_check" ELSE "done",
                exporter |-> None, loaded |-> None,
                api_calls_used |-> IF valid THEN None
                                   ELSE Some(ExportResultDefaults.api_calls_used),
                calls_made |-> callers[t].calls_made + 1,
                overlapped |-> Running # {},
                external_calls |-> 0]
          ELSE IF u \in Running THEN [callers[u] EXCEPT !.overlapped = TRUE]
          ELSE callers[u]]
    /\ UNCHANGED caller_frame

\* instant_check_and_export(df, target_column, enable_validation), lines
\* 551-570: a new InstantExporter, then check_and_export on it
CallOwn(t, valid, enable_validation) ==
    /\ callers[t].pc = "idle"
    /\ callers[t].calls_made < MaxCallsEach
    /\ callers' = [callers EXCEPT ![t] =
          [pc |-> IF valid THEN "external_check" ELSE "done",
           exporter |-> Some([enable_tabpfn_validation |-> enable_validation,
                              max_api_calls |-> DefaultMaxApiCalls,
                              _api_calls_used |-> 0]),
           loaded |-> None,
           api_calls_used |-> IF valid THEN None
                              ELSE Some(ExportResultDefaults.api_calls_used),
           calls_made |-> callers[t].calls_made + 1,
           overlapped |-> FALSE,
           external_calls |-> 0]]
    /\ UNCHANGED <<caller_frame, _api_calls_used>>

\* line 176 and _quick_tabpfn_check lines 448-482: the check is skipped, or
\* no backend is there or the preparation raises, or the wrapper is ready
CallerReachesCheck(t, available, prepared) ==
    /\ callers[t].pc = "external_check"
    /\ callers' = [callers EXCEPT ![t].pc =
          IF Self(t).enable_tabpfn_validation
             /\ Self(t)._api_calls_used < Self(t).max_api_calls
             /\ available /\ prepared
          THEN "fit" ELSE "return"]
    /\ UNCHANGED <<caller_frame, _api_calls_used>>

\* line 483 and the read of line 484, or line 486 and the read of line 487:
\* the external call returns and `self._api_calls_used += 1` reads the counter;
\* or the call raises and line 494 catches
CallerCalls(t, outcome) ==
    /\ callers[t].pc \in {"fit", "score"}
    /\ callers' = [callers EXCEPT ![t] =
          IF outcome = "ok"
          THEN [@ EXCEPT !.pc = IF @ = "fit" THEN "fit_counted" ELSE "score_counted",
                         !.loaded = Some(Self(t)._api_calls_used),
                         !.external_calls = @ + 1]
          ELSE [@ EXCEPT !.pc = "return"]]
    /\ UNCHANGED <<caller_frame, _api_calls_used>>

\* the write of line 484 or of line 487
CallerCounts(t) ==
    /\ callers[t].pc \in {"fit_counted", "score_counted"}
    /\ SetCounter(t, [callers[t] EXCEPT
                         !.pc = IF @ = "fit_counted" THEN "score" ELSE "return",
                         !.loaded = None],
                  TheValue(callers[t].loaded) + 1)
    /\ UNCHANGED caller_frame

\* lines 187-221: the ExportResult, with api_calls_used=self._api_calls_used
CallerReturns(t) ==
    /\ callers[t].pc = "return"
    /\ callers' = [callers EXCEPT ![t].pc = "done",
                                  ![t].api_calls_used = Some(Self(t)._api_calls_used)]
    /\ UNCHANGED <<caller_frame, _api_calls_used>>

\* the thread has the result and is free for its next call
CallerLeaves(t) ==
    /\ callers[t].pc = "done"
    /\ callers' = [callers EXCEPT ![t] =
          [IdleCaller EXCEPT !.calls_made = callers[t].calls_made]]
    /\ UNCHANGED <<caller_frame, _api_calls_used>>

CallersNext ==
    \/ \E t \in Callers, valid \in BOOLEAN : CallShared(t, valid)
    \/ \E t \in Callers, valid \in BOOLEAN, enable_validation \in BOOLEAN :
          CallOwn(t, valid, enable_validation)
    \/ \E t \in Callers, available \in BOOLEAN, prepared \in BOOLEAN :
          CallerReachesCheck(t, available, prepared)
    \/ \E t \in Callers, outcome \in {"ok", "error"} : CallerCalls(t, outcome)
    \/ \E t \in Callers : CallerCounts(t)
    \/ \E t \in Callers : CallerReturns(t)
    \/ \E t \in Callers : CallerLeaves(t)
NoRun ==
    [df |-> None, target_column |-> <<>>, cleaned_df |-> None, cleaning_actions |-> <<>>,
     warnings |-> <<>>, validation_score |-> None]

\* InstantExporter.__init__
ExporterInit ==
    /\ enable_tabpfn_validation \in BOOLEAN
    /\ max_api_calls \in 0..MaxApiCalls
    /\ _api_calls_used = 0
    /\ pc = "idle"
    /\ run = NoRun
    /\ progress_calls = <<>>
    /\ result = None
    /\ phases = <<>>
    /\ external_check = "not_reached"
    /\ reclean = None

\* ------------------------------------------------------------------------
\* InstantExporter.check_and_export, phase by phase
\* ------------------------------------------------------------------------

\* lines 132-157: reset the counter, report 0.0, PHASE 1; a blocking issue
\* returns at once.  An exception of _validate_basic is caught nowhere in
\* check_and_export and leaves it
Validate(df, target_column) ==
    /\ pc = "idle"
    /\ _api_calls_used' = 0
    /\ phases' = <<"VALIDATE">>
    /\ external_check' = "not_reached"
    /\ reclean' = None
    /\ LET validated == _validate_basic(df, target_column)
           validation_issues == TheValue(validated.returned)
       IN
       IF ~IsNone(validated.raised)
       THEN /\ result' = None
            /\ progress_calls' = <<Frac(0, 1)>>
            /\ run' = [NoRun EXCEPT !.df = Some(df), !.target_column = target_column]
            /\ pc' = "raised"
       ELSE IF Len(validation_issues) > 0
       THEN /\ result' = Some([ExportResultDefaults EXCEPT
                                 !.is_ready = FALSE,
                                 !.summary = validation_issues[1],
                                 !.warnings = validation_issues,
                                 !.original_row_count = df.nrows,
                                 !.original_col_count = Len(df.cols),
                                 !.target_column = target_column])
            /\ progress_calls' = <<Frac(0, 1)>>
            /\ run' = [NoRun EXCEPT !.df = Some(df), !.target_column = target_column]
            /\ pc' = "done"
       ELSE /\ result' = None
            /\ progress_calls' = <<Frac(0, 1), Frac(2, 10)>>
            /\ run' = [NoRun EXCEPT !.df = Some(df), !.target_column = target_column]
            /\ pc' = "auto_clean"
    /\ UNCHANGED <<unfold_vars, graph_vars, service_vars,
                   enable_tabpfn_validation, max_api_calls>>

\* the lambda of line 165: report(m, 0.3 + p * 0.3)
CleanProgress(p) == Frac(3, 10) + (p * 3) \div 10

\* lines 162-168: PHASE 2.  An exception of _auto_clean is caught nowhere in
\* check_and_export and leaves it
AutoClean ==
    /\ pc = "auto_clean"
    /\ \E feature_types \in TypeChoices(TheValue(run.df), run.target_column) :
       \E tied_last \in SortChoices(TheValue(run.df), run.target_column, feature_types) :
       LET df == TheValue(run.df)
           cleaned == _auto_clean(df, run.target_column, tied_last, feature_types)
       IN  IF ~IsNone(cleaned.raised)
           THEN /\ progress_calls' = progress_calls \o <<Frac(25, 100)>>
                                     \o [i \in 1..Len(cleaned.reports) |->
                                            CleanProgress(cleaned.reports[i])]
                /\ run' = run
                /\ pc' = "raised"
           ELSE /\ progress_calls' = progress_calls \o <<Frac(25, 100)>>
                                     \o [i \in 1..Len(cleaned.reports) |->
                                            CleanProgress(cleaned.reports[i])]
                                     \o <<Frac(6, 10)>>
                /\ run' = [run EXCEPT !.cleaned_df = Some(cleaned.cleaned),
                                   !.cleaning_actions = cleaned.actions,
                                   !.warnings = cleaned.warnings]
                /\ pc' = "external_check"
    /\ phases' = Append(phases, "AUTO_CLEAN")
    /\ UNCHANGED <<unfold_vars, graph_vars, service_vars,
                   enable_tabpfn_validation, max_api_calls, _api_calls_used, result,
                   external_check, reclean>>

\* line 176, condition false: PHASE 3 is skipped
SkipExternalCheck ==
    /\ pc = "external_check"
    /\ ~(enable_tabpfn_validation /\ _api_calls_used < max_api_calls)
    /\ external_check' = IF ~enable_tabpfn_validation THEN "disabled" ELSE "budget_exhausted"
    /\ pc' = "decide"
    /\ UNCHANGED <<unfold_vars, graph_vars, service_vars,
                   enable_tabpfn_validation, max_api_calls, _api_calls_used, run,
                   progress_calls, result, phases, reclean>>

\* lines 176-178 and _quick_tabpfn_check lines 448-482: report 0.7, ask for a
\* backend, split the data and construct the wrapper.  The two availability
\* flags are read from the module; the split or the construction may raise,
\* which line 494 catches.
BeginExternalCheck(client_available, local_available, prepared) ==
    /\ pc = "external_check"
    /\ enable_tabpfn_validation /\ _api_calls_used < max_api_calls
    /\ progress_calls' = Append(progress_calls, Frac(7, 10))
    /\ phases' = Append(phases, "EXTERNAL_CHECK")
    /\ IF ~is_tabpfn_available(client_available, local_available)[1]
       THEN /\ external_check' = "unavailable"
            /\ pc' = "decide"
       ELSE IF prepared
       THEN /\ external_check' = "fitting"
            /\ pc' = "fit"
       ELSE /\ external_check' = "failed"
            /\ pc' = "decide"
    /\ UNCHANGED <<unfold_vars, graph_vars, service_vars,
                   enable_tabpfn_validation, max_api_calls, _api_calls_used, run, result,
                   reclean>>

\* a fit whose exception leaves check_and_export: the call ends without a result
FitErrorEscapes(outcome) ==
    /\ pc = "fit"
    /\ IF outcome = "ok"
       THEN /\ _api_calls_used' = _api_calls_used + 1
            /\ external_check' = "scoring"
            /\ pc' = "score"
       ELSE /\ _api_calls_used' = _api_calls_used
            /\ external_check' = "failed"
            /\ pc' = "done"
    /\ UNCHANGED <<unfold_vars, graph_vars, service_vars,
                   enable_tabpfn_validation, max_api_calls, run, progress_calls, result,
                   phases, reclean>>

\* lines 483-484: wrapper.fit returns, or raises (a timeout, another error)
Fit(outcome) ==
    /\ pc = "fit"
    /\ IF outcome = "ok"
       THEN /\ _api_calls_used' = _api_calls_used + 1
            /\ external_check' = "scoring"
            /\ pc' = "score"
       ELSE /\ _api_calls_used' = _api_calls_used
            /\ external_check' = "failed"
            /\ pc' = "decide"
    /\ UNCHANGED <<unfold_vars, graph_vars, service_vars,
                   enable_tabpfn_validation, max_api_calls, run, progress_calls, result,
                   phases, reclean>>

\* a scoring step that leaves the counter as it is
ScoreUncounted(score) ==
    /\ pc = "score"
    /\ run' = [run EXCEPT !.validation_score = Some(score * 100)]
    /\ progress_calls' = Append(progress_calls, Frac(9, 10))
    /\ external_check' = "completed"
    /\ pc' = "decide"
    /\ UNCHANGED <<unfold_vars, graph_vars, service_vars, enable_tabpfn_validation, max_api_calls,
                   _api_calls_used, result, phases, reclean>>

\* lines 486-492 and 181-182: wrapper.score returns a score
Score(score) ==
    /\ pc = "score"
    /\ _api_calls_used' = _api_calls_used + 1
    /\ run' = [run EXCEPT !.validation_score = Some(score * 100)]
    /\ progress_calls' = Append(progress_calls, Frac(9, 10))
    /\ external_check' = "completed"
    /\ pc' = "decide"
    /\ UNCHANGED <<unfold_vars, graph_vars, service_vars,
                   enable_tabpfn_validation, max_api_calls, result, phases, reclean>>

\* line 486 raises, line 494 catches
ScoreFails ==
    /\ pc = "score"
    /\ external_check' = "failed"
    /\ pc' = "decide"
    /\ UNCHANGED <<unfold_vars, graph_vars, service_vars,
                   enable_tabpfn_validation, max_api_calls, _api_calls_used, run,
                   progress_calls, result, phases, reclean>>

\* lines 187-221: PHASE 4, the verdict and the ExportResult
Decide ==
    /\ pc = "decide"
    /\ LET cleaned_df == TheValue(run.cleaned_df)
           df == TheValue(run.df)
           is_ready == _determine_readiness(cleaned_df, run.cleaning_actions,
                                            run.warnings, run.validation_score)
           summary == IF is_ready
                      THEN IF Len(run.cleaning_actions) > 0
                           THEN PLAIN_SUMMARIES.ready_with_fixes
                           ELSE PLAIN_SUMMARIES.ready
                      ELSE PLAIN_SUMMARIES.too_messy
       IN  result' = Some([is_ready |-> is_ready,
                           summary |-> summary,
                           warnings |-> run.warnings,
                           cleaning_actions |-> run.cleaning_actions,
                           cleaned_df |-> Some(cleaned_df),
                           original_row_count |-> df.nrows,
                           cleaned_row_count |-> cleaned_df.nrows,
                           original_col_count |-> Len(df.cols),
                           cleaned_col_count |-> Len(cleaned_df.cols),
                           target_column |-> run.target_column,
                           validation_score |-> run.validation_score,
                           api_calls_used |-> _api_calls_used])
    /\ progress_calls' = progress_calls \o <<Frac(95, 100), Frac(1, 1)>>
    /\ phases' = Append(phases, "DECIDE")
    /\ pc' = "done"
    /\ UNCHANGED <<unfold_vars, graph_vars, service_vars,
                   enable_tabpfn_validation, max_api_calls, _api_calls_used, run,
                   external_check, reclean>>

\* _auto_clean called once more, on the cleaned dataset it returned; the
\* answers detect_feature_type gave it are kept beside what it returned
CleanAgain ==
    /\ pc = "external_check"
    /\ IsNone(reclean)
    /\ \E feature_types \in TypeChoices(TheValue(run.cleaned_df), run.target_column) :
       \E tied_last \in SortChoices(TheValue(run.cleaned_df), run.target_column,
                                    feature_types) :
          reclean' = Some([outcome |-> _auto_clean(TheValue(run.cleaned_df),
                                                   run.target_column, tied_last,
                                                   feature_types),
                           feature_types |-> feature_types])
    /\ UNCHANGED <<unfold_vars, graph_vars, service_vars,
                   enable_tabpfn_validation, max_api_calls, _api_calls_used, pc, run,
                   progress_calls, result, phases, external_check>>

\* the caller has the result, or the exception; the exporter is free for its
\* next call
Return ==
    /\ pc \in {"done", "raised"}
    /\ pc' = "idle"
    /\ run' = NoRun
    /\ progress_calls' = <<>>
    /\ result' = None
    /\ phases' = <<>>
    /\ external_check' = "not_reached"
    /\ reclean' = None
    /\ UNCHANGED <<unfold_vars, graph_vars, service_vars,
                   enable_tabpfn_validation, max_api_calls, _api_calls_used>>

\* the export pipeline; no transition of the ascent module runs
Init == ExporterInit /\ UnfoldIdle /\ GraphIdle /\ LineageIdle /\ CacheIdle
        /\ WrapperIdle /\ EnrichIdle
        /\ CallersIdle

Next ==
    \/ \E c \in Calls : Validate(c[1], c[2])
    \/ AutoClean
    \/ SkipExternalCheck
    \/ \E client_available \in BOOLEAN, local_available \in BOOLEAN, prepared \in BOOLEAN :
          BeginExternalCheck(client_available, local_available, prepared)
    \/ \E outcome \in {"ok", "timeout", "error"} : Fit(outcome)
    \/ \E score \in Scores : Score(score)
    \/ ScoreFails
    \/ Decide
    \/ Return

Spec == Init /\ [][Next]_vars

\* an exporter that never asks for the external check; nothing of the ascent
\* module is held
PlainInit == Init /\ ~enable_tabpfn_validation /\ max_api_calls = 0

\* _auto_clean alone: the call up to the end of PHASE 2, then _auto_clean on
\* its own output
CleanNext ==
    \/ \E c \in CleanCalls : Validate(c[1], c[2])
    \/ AutoClean
    \/ CleanAgain

SpecClean == PlainInit /\ [][CleanNext]_vars

\* the unfold alone
SpecUnfold == PlainInit /\ [][UnfoldNext]_vars

\* the graph builder alone
SpecGraph == PlainInit /\ [][GraphNext]_vars

\* the lineage alone
SpecLineage == PlainInit /\ [][LineageNext]_vars

\* the cache alone, and its joined datasets alone
SpecCache == PlainInit /\ [][CacheNext]_vars
SpecJoined == PlainInit /\ [][JoinedNext]_vars

\* the wrapper alone
SpecWrapper == PlainInit /\ [][WrapperNext]_vars

\* the enrichment alone
SpecEnrich == PlainInit /\ [][EnrichNext]_vars

\* the three transitions of the ascent, on few inputs
SpecTransitions == PlainInit /\ [][TransitionsNext]_vars

\* the export pipeline on datasets with a column of lists
CleanErrorNext ==
    \/ \E c \in ErrorCalls : Validate(c[1], c[2])
    \/ AutoClean
    \/ SkipExternalCheck
    \/ \E client_available \in BOOLEAN, local_available \in BOOLEAN, prepared \in BOOLEAN :
          BeginExternalCheck(client_available, local_available, prepared)
    \/ \E outcome \in {"ok", "timeout", "error"} : Fit(outcome)
    \/ \E score \in Scores : Score(score)
    \/ ScoreFails
    \/ Decide
    \/ Return

SpecCleanError == Init /\ [][CleanErrorNext]_vars

\* calls of check_and_export from two threads, on one exporter or on an
\* exporter made for the call
SpecCallers == Init /\ [][CallersNext]_vars

\* ------------------------------------------------------------------------
\* Properties of check_and_export
\* ------------------------------------------------------------------------

\* the last phase the call entered
LastPhase == phases[Len(phases)]

\* the call has returned after DECIDE
ReachedDecide == pc = "done" /\ LastPhase = "DECIDE"

\* C1, as the specification states it: the api_calls_used of a returned
\* ExportResult never exceeds max_api_calls.  The code lets a check start with
\* one call left and then counts both the fit and the score.
C1_CallsWithinBudget ==
    pc = "done" => TheValue(result).api_calls_used <= max_api_calls

\* C5, as the specification states it: the progress values of a finished call
\* start with 0.0, end with 1.0, never decrease and stay in [0.0, 1.0].  A call
\* that stops at VALIDATE reports 0.0 and nothing after it.
C5_ProgressFromZeroToOne ==
    pc = "done" =>
        /\ Len(progress_calls) > 0
        /\ progress_calls[1] = 0
        /\ progress_calls[Len(progress_calls)] = ProgressOne
        /\ \A i \in 1..Len(progress_calls) :
               progress_calls[i] >= 0 /\ progress_calls[i] <= ProgressOne
        /\ \A i \in 1..(Len(progress_calls) - 1) : progress_calls[i] <= progress_calls[i + 1]

C6_TooManyEmpty == <<"t","o","o"," ","m","a","n","y"," ","e","m","p","t","y">>
C6_CouldNotBeUsed == <<"c","o","u","l","d","n","'","t"," ","b","e"," ","u","s","e","d">>
C6_NeedMoreData == <<"n","e","e","d"," ","m","o","r","e"," ","d","a","t","a">>

\* the warning contains one of the three phrases, whatever the case of its letters
C6_Critical(warning) ==
    \E phrase \in {C6_TooManyEmpty, C6_CouldNotBeUsed, C6_NeedMoreData} :
        \E i \in 1..Len(warning) :
            /\ i + Len(phrase) - 1 <= Len(warning)
            /\ \A j \in 1..Len(phrase) : LowerChar(warning[i + j - 1]) = phrase[j]

\* the four conditions of C6, read from the returned ExportResult
C6_FourConditions ==
    LET r == TheValue(result) IN
    /\ TheValue(r.cleaned_df).nrows >= 10
    /\ Len(TheValue(r.cleaned_df).cols) >= 3
    /\ (IsNone(r.validation_score) \/ TheValue(r.validation_score) >= 50 * ScoreOne)
    /\ \A i \in 1..Len(r.warnings) : ~C6_Critical(r.warnings[i])

\* C6: in a call that reaches DECIDE, is_ready is true exactly when the cleaned
\* dataset has at least 10 rows and at least 3 columns, the external score is
\* absent or at least 50, and no warning contains a critical phrase.
C6_ReadyIffFourConditions ==
    ReachedDecide => (TheValue(result).is_ready <=> C6_FourConditions)

\* C6 witness: a verdict of "not ready" that only a critical warning explains
C6_Witness ==
    /\ ReachedDecide
    /\ ~TheValue(result).is_ready
    /\ TheValue(TheValue(result).cleaned_df).nrows >= 10
    /\ Len(TheValue(TheValue(result).cleaned_df).cols) >= 3
    /\ ~IsNone(TheValue(result).validation_score)
    /\ TheValue(TheValue(result).validation_score) >= 50 * ScoreOne
    /\ \E i \in 1..Len(TheValue(result).warnings) : C6_Critical(TheValue(result).warnings[i])

\* the input of the call fails one of the four checks of VALIDATE
C7_Blocked ==
    LET df == TheValue(run.df)
        target == run.target_column
        present == {i \in 1..Len(df.cols) : df.cols[i].name = target}
    IN  \/ present = {}
        \/ df.nrows < 10
        \/ \E i \in present :
              Cardinality({df.cols[i].vals[k] : k \in {k \in 1..df.nrows :
                                                         df.cols[i].vals[k].k # "nan"}}) < 2
        \/ present = 1..Len(df.cols)

\* C7: a call whose target column is absent, whose dataset has fewer than 10
\* rows, whose target has fewer than 2 distinct values that are not null, or
\* whose dataset has no column but the target, returns and does not raise:
\* it returns an ExportResult that is not ready, has no cleaning actions, no
\* cleaned dataset and no external calls, and the call enters no phase after
\* VALIDATE.
C7_BlockedInputReturnsAtOnce ==
    (pc # "idle" /\ C7_Blocked) =>
        /\ pc = "done"
        /\ phases = <<"VALIDATE">>
        /\ ~IsNone(result)
        /\ ~TheValue(result).is_ready
        /\ TheValue(result).cleaning_actions = <<>>
        /\ IsNone(TheValue(result).cleaned_df)
        /\ TheValue(result).api_calls_used = 0

\* C10, as the specification states it: a call past VALIDATE reports 0 calls
\* and no score when the external check is skipped, and exactly 2 calls
\* whenever the check is run.  A fit or a score that raises leaves 0 or 1.
C10_TwoCallsWheneverRun ==
    ReachedDecide =>
        LET r == TheValue(result) IN
        /\ external_check \in {"disabled", "budget_exhausted", "unavailable"}
              => (r.api_calls_used = 0 /\ IsNone(r.validation_score))
        /\ external_check \in {"completed", "failed"} => r.api_calls_used = 2

\* C10, amended: 0 calls and no score when the check is skipped; exactly 2
\* calls and a score when the fit and the score both return; 0 or 1 calls and
\* no score when the check is run and fails.
C10_TwoCallsWhenCompleted ==
    ReachedDecide =>
        LET r == TheValue(result) IN
        /\ external_check \in {"disabled", "budget_exhausted", "unavailable", "completed",
                               "failed"}
        /\ external_check \in {"disabled", "budget_exhausted", "unavailable"}
              => (r.api_calls_used = 0 /\ IsNone(r.validation_score))
        /\ external_check = "completed"
              => (r.api_calls_used = 2 /\ ~IsNone(r.validation_score))
        /\ external_check = "failed"
              => (r.api_calls_used \in {0, 1} /\ IsNone(r.validation_score))

\* C10 witness: a call whose external check ran to its end
C10_Witness ==
    /\ ReachedDecide
    /\ external_check = "completed"
    /\ TheValue(result).api_calls_used = 2

\* ------------------------------------------------------------------------
\* Properties of _auto_clean
\* ------------------------------------------------------------------------

\* C4: _auto_clean on the dataset it returned, with the same target column,
\* returns no CleaningAction.
C4_SecondCleanDoesNothing ==
    ~IsNone(reclean) => TheValue(reclean).outcome.actions = <<>>

\* the columns of the cleaned dataset that the second _auto_clean was told
\* are categorical
C4_CalledCategorical ==
    LET features == FeatureCols(TheValue(run.cleaned_df), run.target_column) IN
    {features[j] : j \in {j \in 1..Len(features) :
                            TheValue(reclean).feature_types[j][2] = "categorical"}}

\* C4, as far as src/ decides it: the second _auto_clean does not raise,
\* removes no row and no column and fills no cell; its actions are
\* encode_category actions, of the columns of the cleaned dataset that
\* detect_feature_type calls categorical and of each of them, and none when
\* it calls no column so; the other columns stay as they are.
C4_SecondCleanOnlyEncodes ==
    ~IsNone(reclean) =>
        LET again == TheValue(reclean).outcome
            cleaned == TheValue(run.cleaned_df)
            features == FeatureCols(cleaned, run.target_column)
        IN  /\ IsNone(again.raised)
            /\ again.cleaned.nrows = cleaned.nrows
            /\ ColumnNames(again.cleaned) = ColumnNames(cleaned)
            /\ \A i \in 1..Len(again.actions) :
                  /\ again.actions[i].action_type = "encode_category"
                  /\ again.actions[i].column \in C4_CalledCategorical
            /\ \A name \in C4_CalledCategorical :
                  \E i \in 1..Len(again.actions) : again.actions[i].column = name
            /\ \A j \in 1..Len(cleaned.cols) :
                  cleaned.cols[j].name \notin C4_CalledCategorical
                      => again.cleaned.cols[j] = cleaned.cols[j]

\* the second call has returned, after a first call that filled cells,
\* encoded a column and removed another, and no column of the cleaned
\* dataset was called categorical
C4_Witness ==
    /\ ~IsNone(reclean)
    /\ C4_CalledCategorical = {}
    /\ \E i \in 1..Len(run.cleaning_actions) :
          run.cleaning_actions[i].action_type = "fill_missing"
    /\ \E i \in 1..Len(run.cleaning_actions) :
          run.cleaning_actions[i].action_type = "encode_category"
    /\ \E i \in 1..Len(run.cleaning_actions) :
          run.cleaning_actions[i].action_type = "remove_column"

\* ------------------------------------------------------------------------
\* Properties of unfold_l0_to_l1
\* ------------------------------------------------------------------------

\* C3: every unfold of a datum aggregated from a vector returns the values of
\* that vector in their order, every unfold of the datum returns the same
\* Level1Dataset, and the datum still holds the vector.
C3_UnfoldReturnsParent ==
    ~IsNone(aggregated_from) =>
        /\ TheValue(TheValue(datum).parent_data).vals = TheValue(aggregated_from)
        /\ \A i \in 1..Len(unfolded) :
              /\ IsNone(unfolded[i].outcome.raised)
              /\ ~IsNone(unfolded[i].outcome.returned)
              /\ TheValue(unfolded[i].outcome.returned).data.vals = TheValue(aggregated_from)
              /\ unfolded[i].outcome = unfolded[1].outcome

\* C3 witness: a datum aggregated from a vector that is not a palindrome,
\* unfolded twice
C3_Witness ==
    /\ ~IsNone(aggregated_from)
    /\ Len(TheValue(aggregated_from)) >= 2
    /\ TheValue(aggregated_from)[1] # TheValue(aggregated_from)[Len(TheValue(aggregated_from))]
    /\ Len(unfolded) >= 2
    /\ ~IsNone(unfolded[2].outcome.returned)

\* the caller holds an L0 datum whose parent vector is absent
C8_Parentless ==
    /\ ~IsNone(datum)
    /\ TheValue(datum).level = "L0"
    /\ IsNone(TheValue(datum).parent_data)

\* C8: every unfold of a datum without a parent vector raises NoParentError
\* and returns nothing, with validate_parent on or off.
C8_ParentlessUnfoldRaises ==
    C8_Parentless =>
        \A i \in 1..Len(unfolded) :
            /\ unfolded[i].outcome.raised = Some("NoParentError")
            /\ IsNone(unfolded[i].outcome.returned)

\* C8 witness: a parentless datum unfolded once with validation and once without
C8_Witness ==
    /\ C8_Parentless
    /\ Len(unfolded) >= 2
    /\ unfolded[1].validate_parent # unfolded[2].validate_parent
    /\ unfolded[1].outcome.raised = Some("NoParentError")
    /\ unfolded[2].outcome.raised = Some("NoParentError")

\* ------------------------------------------------------------------------
\* Properties of build_l2_to_l3_graph
\* ------------------------------------------------------------------------

\* the nodes of G that no edge touches
IsolatedNodes(G) ==
    {G.nodes[i].id : i \in 1..Len(G.nodes)}
    \ ({G.edges[i].u : i \in 1..Len(G.edges)} \cup {G.edges[i].v : i \in 1..Len(G.edges)})

\* C2: a graph that build_l2_to_l3_graph returns with validate_orphans on has
\* no node of degree 0.
C2_ReturnedGraphHasNoOrphan ==
    (/\ ~IsNone(graph_result)
     /\ TheValue(graph_call).validate_orphans
     /\ ~IsNone(TheValue(graph_result).returned))
        => IsolatedNodes(TheValue(TheValue(graph_result).returned).data) = {}

\* C2 witness: a graph returned with validation on, of a table with rows
\* whose entity is missing
C2_Witness ==
    /\ ~IsNone(graph_result)
    /\ TheValue(graph_call).validate_orphans
    /\ ~IsNone(TheValue(graph_result).returned)
    /\ Len(TheValue(TheValue(graph_result).returned).data.nodes) >= 3
    /\ TheValue(graph_call).table.level = "L2"
    /\ \E i \in 1..TheValue(graph_call).table.data.nrows :
          TheValue(graph_call).table.data.cols[1].vals[i] = NaN

\* the graph the call constructs before its orphan check; None when the
\* construction itself raises
C9_Constructed ==
    LET call == TheValue(graph_call)
        unchecked == build_l2_to_l3_graph(call.table, call.entity_column, call.value_column,
                                          call.relationship_type, FALSE)
    IN  IF IsNone(unchecked.returned) THEN None ELSE Some(TheValue(unchecked.returned).data)

\* the rows (positions from 1) of the table whose entity is missing
C9_NullRows ==
    LET df == TheValue(graph_call).table.data IN
    {i \in 1..df.nrows : isna(Col(df, TheValue(graph_call).entity_column).vals[i])}

\* C9, as the specification states it: with validate_orphans on, a table with
\* a row whose entity is missing and a constructed graph with a node of
\* degree 0, the call raises OrphanNodeError, returns no graph, and the orphans
\* it lists are the nodes of degree 0, which are the nodes of the rows whose
\* entity is missing.  An entity value equal to a row id gives that row's node
\* an edge.
C9_OrphansAreNullRows ==
    (/\ ~IsNone(graph_result)
     /\ TheValue(graph_call).validate_orphans
     /\ TheValue(graph_call).table.level = "L2"
     /\ HasColumn(TheValue(graph_call).table.data, TheValue(graph_call).entity_column)
     /\ C9_NullRows # {}
     /\ ~IsNone(C9_Constructed)
     /\ IsolatedNodes(TheValue(C9_Constructed)) # {})
        => LET r == TheValue(graph_result)
               df == TheValue(graph_call).table.data
           IN  /\ r.raised = Some("OrphanNodeError")
               /\ IsNone(r.returned)
               /\ {r.orphans[i] : i \in 1..Len(r.orphans)}
                     = IsolatedNodes(TheValue(C9_Constructed))
               /\ {r.orphans[i] : i \in 1..Len(r.orphans)}
                     = {TheValue(OriginalEntity(df, i).returned) : i \in C9_NullRows}

\* ------------------------------------------------------------------------
\* Properties of the external check, the messages, the lineage, the cache and
\* the wrapper
\* ------------------------------------------------------------------------

\* C11: when the split, the construction of the wrapper, the fit (a timeout or
\* another error) or the score raises, the exception stays inside
\* _quick_tabpfn_check: the call goes on to DECIDE and returns an ExportResult
\* that holds the cleaned dataset and no validation_score, with the readiness
\* that _determine_readiness gives without a score.
C11_FailedCheckStillDecides ==
    /\ external_check = "failed" => pc \in {"decide", "done"}
    /\ (external_check = "failed" /\ pc = "done") =>
          /\ ~IsNone(result)
          /\ LastPhase = "DECIDE"
          /\ TheValue(result).cleaned_df = run.cleaned_df
          /\ ~IsNone(TheValue(result).cleaned_df)
          /\ IsNone(TheValue(result).validation_score)
          /\ TheValue(result).is_ready =
                 _determine_readiness(TheValue(run.cleaned_df), run.cleaning_actions,
                                      run.warnings, None)

\* C11 witness: a call whose fit had been counted and whose score raised has
\* returned, and its dataset is ready
C11_Witness ==
    /\ external_check = "failed"
    /\ pc = "done"
    /\ _api_calls_used = 1
    /\ ~IsNone(result)
    /\ TheValue(result).is_ready
    /\ IsNone(TheValue(result).validation_score)

\* the values of the two lookup tables
C12_TableValues ==
    {PLAIN_SUMMARIES[k] : k \in DOMAIN PLAIN_SUMMARIES}
        \cup {PLAIN_WARNINGS[k] : k \in DOMAIN PLAIN_WARNINGS}

\* C12, as the specification states it: the summary and every warning of a
\* returned ExportResult is a value of PLAIN_SUMMARIES or PLAIN_WARNINGS.  Three
\* of the four messages of _validate_basic are written in place, and one of
\* them holds the name of the column that was asked for.
C12_MessagesFromTables ==
    pc = "done" =>
        /\ TheValue(result).summary \in C12_TableValues
        /\ \A i \in 1..Len(TheValue(result).warnings) :
               TheValue(result).warnings[i] \in C12_TableValues

\* the strings of a returned ExportResult: its summary, its warnings and the
\* descriptions of its cleaning actions
C13_Strings ==
    LET r == TheValue(result) IN
    {r.summary} \cup {r.warnings[i] : i \in 1..Len(r.warnings)}
        \cup {r.cleaning_actions[i].description : i \in 1..Len(r.cleaning_actions)}

\* C13, as the specification states it: no summary, warning or description of
\* a returned ExportResult contains a forbidden term, whatever the case of its
\* letters.  The descriptions and one message of _validate_basic quote the
\* column names of the input as they are.
C13_NoJargon ==
    pc = "done" => \A text \in C13_Strings : has_no_jargon(text)

\* s is a prefix of t
C14_IsPrefix(s, t) == Len(s) <= Len(t) /\ \A i \in 1..Len(s) : s[i] = t[i]

\* C14: the log has one record for every add_operation call, in the order of
\* the calls, each holding the arguments of its call (a timestamp when none
\* was given, an empty dict when no parameters were given); and the records
\* get_history returned earlier are the first records of get_history now,
\* whatever was added, asked or exported in between.
C14_AppendOnly ==
    /\ Len(lineage.operations) = Len(add_calls)
    /\ \A i \in 1..Len(add_calls) :
          LET op == lineage.operations[i]
              call == add_calls[i]
          IN  /\ op.operation_type = call.operation_type
              /\ op.input_level = call.input_level
              /\ op.output_level = call.output_level
              /\ op.duration_ms = call.duration_ms
              /\ op.row_count_before = call.row_count_before
              /\ op.row_count_after = call.row_count_after
              /\ ~IsNone(call.timestamp) => op.timestamp = TheValue(call.timestamp)
              /\ IsNone(call.timestamp) => op.timestamp \in LineageInputs.clock
              /\ ~IsNone(call.parameters) => op.parameters = TheValue(call.parameters)
              /\ IsNone(call.parameters) => op.parameters = [t |-> "dict", v |-> <<>>]
    /\ C14_IsPrefix(history_seen, get_history(lineage))

\* C14 witness: get_history returned one record, then a different operation
\* was added and the lineage was exported
C14_Witness ==
    /\ Len(history_seen) = 1
    /\ Len(lineage.operations) = 2
    /\ lineage.operations[1] # lineage.operations[2]
    /\ ~IsNone(lineage_file)
    /\ TheValue(lineage_file).total_operations = 2

\* C15, as the specification states it: the lineage loaded from an exported
\* file gives the get_history() of the exported lineage, record for record and
\* field for field, and has its metadata and its creation time.  A parameter
\* value that is a tuple is written as an array and read back as a list.
C15_RoundTrip ==
    ~IsNone(loaded) =>
        /\ get_history(TheValue(loaded)) = get_history(TheValue(exported))
        /\ TheValue(loaded).metadata = TheValue(exported).metadata
        /\ TheValue(loaded)._created_at = TheValue(exported)._created_at

\* C16: an entry is what the last set of its key made it (no get changes its
\* value, creation time or TTL); a get of a key that was set and not
\* invalidated returns the value when the age of the entry is at most its
\* TTL and leaves the entry in place, and otherwise returns None and leaves no
\* entry for the key.
C16_ExpiryByAgeOnly ==
    /\ \A key \in DOMAIN cache_entries :
          /\ key \in DOMAIN stored
          /\ cache_entries[key].value = stored[key].value
          /\ cache_entries[key].timestamp = stored[key].timestamp
          /\ cache_entries[key].ttl_seconds = stored[key].ttl_seconds
    /\ ~IsNone(cache_got) =>
          LET g == TheValue(cache_got) IN
          IF g.key \in DOMAIN stored /\ g.now - stored[g.key].timestamp <= stored[g.key].ttl_seconds
          THEN g.returned = Some(stored[g.key].value) /\ g.key \in DOMAIN cache_entries
          ELSE IsNone(g.returned) /\ g.key \notin DOMAIN cache_entries

\* C16 witness: a get of a key that was set longer ago than its TTL, which is
\* not 0, has returned None
C16_Witness ==
    /\ ~IsNone(cache_got)
    /\ TheValue(cache_got).key \in DOMAIN stored
    /\ stored[TheValue(cache_got).key].ttl_seconds > 0
    /\ TheValue(cache_got).now - stored[TheValue(cache_got).key].timestamp
           > stored[TheValue(cache_got).key].ttl_seconds
    /\ IsNone(TheValue(cache_got).returned)

\* two dicts are equal: the same items, in whatever order
C17_SameConfig(c1, c2) == {c1[i] : i \in 1..Len(c1)} = {c2[i] : i \in 1..Len(c2)}

\* the set_joined_dataset calls made with the configuration of the last get
C17_SameCalls ==
    {i \in 1..Len(joined_calls) :
        C17_SameConfig(joined_calls[i].config, TheValue(cache_got).config)}

\* C17, as the specification states it: get_joined_dataset returns the
\* DataFrame last stored under an equal configuration when that was at most an
\* hour ago, and a miss when no equal configuration was stored.  A
\* configuration with the key 1 and one with the key "1" have the same hash.
C17_HitIffSameConfig ==
    ~IsNone(cache_got) =>
        LET g == TheValue(cache_got)
            last == CHOOSE i \in C17_SameCalls : \A j \in C17_SameCalls : j <= i
        IN  /\ (C17_SameCalls # {} /\ g.now - joined_calls[last].at <= CACHE_TTL_SECONDS) =>
                   g.returned = Some(joined_calls[last].df)
            /\ C17_SameCalls = {} => IsNone(g.returned)

\* C18: on a wrapper, predict, predict_proba and score raise the RuntimeError
\* of a model that is not fitted, without calling the model of the backend,
\* unless an earlier fit call on that wrapper has returned; and the object is
\* marked as fitted only by a fit call that returned, so a fit that raised
\* enables nothing.
C18_NotFittedUnlessFitReturned ==
    /\ ~IsNone(wrapper) => (TheValue(wrapper)._fitted <=> fit_completed)
    /\ (~IsNone(wrapper_outcome)
        /\ TheValue(wrapper_outcome).call \in WrapperInputs.calls
        /\ ~fit_completed)
       => /\ TheValue(wrapper_outcome).raised = Some("RuntimeError")
          /\ ~TheValue(wrapper_outcome).reached_model

\* predict raised the RuntimeError on a wrapper whose only fit call timed out,
\* although the model of the backend has been fitted by the worker of that call
C18_Witness ==
    /\ ~IsNone(wrapper_outcome)
    /\ TheValue(wrapper_outcome).call = "predict"
    /\ TheValue(wrapper_outcome).raised = Some("RuntimeError")
    /\ ~fit_completed
    /\ ~IsNone(TheValue(wrapper).model.fitted_on)

\* C19: a fit call that raised TabPFNTimeoutError has left the wrapper, its
\* flag, its backend and the model of the backend, as it was before the call.
C19_TimeoutLeavesWrapper ==
    (~IsNone(wrapper_outcome)
     /\ TheValue(wrapper_outcome).call = "fit"
     /\ TheValue(wrapper_outcome).raised = Some("TabPFNTimeoutError"))
    => wrapper = TheValue(wrapper_outcome).before

\* C20: once the timeout of a fit call has passed, the caller is not kept
\* waiting for a worker whose call of the backend does not return.
C20_CallerNotBlocked ==
    ~(/\ ~IsNone(fit_call)
      /\ TheValue(fit_call).phase = "shutdown"
      /\ TheValue(worker).state = "running"
      /\ ~TheValue(worker).returns)

\* C21: the construction of a wrapper calls the init function of the client
\* backend first, or of the local backend first when prefer_local is set, and
\* of the other one exactly when the first fails; the backend of the object is
\* the first in that order that initializes, and the RuntimeError is raised
\* if and only if neither initializes.
C21_BackendInOrder ==
    (~IsNone(wrapper_outcome) /\ TheValue(wrapper_outcome).call = "__init__")
    => LET out == TheValue(wrapper_outcome)
           order == IF out.args.prefer_local THEN <<"local", "client">>
                    ELSE <<"client", "local">>
           initializes(name) == IF name = "client" THEN out.args.client = "ok"
                                ELSE out.args.local = "ok"
       IN  /\ out.tried = IF initializes(order[1]) THEN <<order[1]>> ELSE order
           /\ (out.raised = Some("RuntimeError"))
                  <=> (~initializes("client") /\ ~initializes("local"))
           /\ IsNone(out.raised) <=> ~IsNone(wrapper)
           /\ ~IsNone(wrapper) =>
                  /\ TheValue(wrapper).backend =
                         Some(IF initializes(order[1]) THEN order[1] ELSE order[2])
                  /\ TheValue(wrapper).model.backend = TheValue(TheValue(wrapper).backend)
                  /\ initializes(TheValue(TheValue(wrapper).backend))

\* a wrapper constructed without prefer_local whose client model raised in its
\* constructor: the local backend is the active one
C21_Witness ==
    /\ ~IsNone(wrapper_outcome)
    /\ TheValue(wrapper_outcome).call = "__init__"
    /\ ~TheValue(wrapper_outcome).args.prefer_local
    /\ TheValue(wrapper_outcome).args.client = "raises"
    /\ TheValue(wrapper_outcome).tried = <<"client", "local">>
    /\ ~IsNone(wrapper)
    /\ TheValue(wrapper).backend = Some("local")

\* C22: a transition called with an invalid input raises and returns no
\* dataset: unfold_l0_to_l1 of what is not a datum; enrich_l1_to_l2 of what is
\* not a vector, with no domain, or with a threshold outside [0.0, 1.0], while
\* every threshold from 0.0 to 1.0 is accepted; build_l2_to_l3_graph of what
\* is not a table, or with an entity column the table does not have.
C22_Rejected(outcome) == ~IsNone(outcome.raised) /\ IsNone(outcome.returned)

C22_InvalidInputRejected ==
    /\ \A i \in 1..Len(unfolded) :
          TheValue(datum).level # "L0" => C22_Rejected(unfolded[i].outcome)
    /\ ~IsNone(enrich_call) =>
          LET call == TheValue(enrich_call)
              invalid == \/ call.vector.level # "L1"
                         \/ Len(call.domains) = 0
                         \/ call.threshold < 0
                         \/ call.threshold > ThresholdOne
          IN  IF invalid THEN C22_Rejected(TheValue(enrich_result))
              ELSE ~IsNone(TheValue(enrich_result).returned)
    /\ ~IsNone(graph_call) =>
          LET call == TheValue(graph_call) IN
          (call.table.level # "L2" \/ ~HasColumn(call.table.data, call.entity_column))
              => C22_Rejected(TheValue(graph_result))

\* the three rejections at once: an unfold of a vector, an enrichment with the
\* threshold 1.1, a graph on a column the table does not have
C22_Witness ==
    /\ Len(unfolded) > 0 /\ TheValue(datum).level = "L1"
    /\ unfolded[1].outcome.raised = Some("TypeError")
    /\ ~IsNone(enrich_call)
    /\ TheValue(enrich_call).vector.level = "L1"
    /\ Len(TheValue(enrich_call).domains) > 0
    /\ TheValue(enrich_call).threshold = 11
    /\ TheValue(enrich_result).raised = Some("ValueError")
    /\ ~IsNone(graph_call)
    /\ TheValue(graph_call).table.level = "L2"
    /\ TheValue(graph_call).entity_column = GraphText.region
    /\ TheValue(graph_result).raised = Some("ValueError")

\* |value - median| > threshold * std, squared on both sides; never true when
\* the standard deviation is NaN
C27_FartherThanThreshold(vals, value, threshold) ==
    LET n == count(vals)
        d == value.v - median(vals).v
    IN  /\ n >= 2
        /\ d * d * ThresholdOne * ThresholdOne * n * n * (n - 1)
               > threshold * threshold * SquaredDeviations(vals)

\* C27: in the table of an enrichment of a numeric vector, a value above
\* median + threshold * std has the high domain, a value below
\* median - threshold * std the low domain, any other value the mid domain,
\* and a missing value "unknown".
C27_BinnedByMedianAndStd ==
    (~IsNone(enrich_result) /\ ~IsNone(TheValue(enrich_result).returned))
    => LET call == TheValue(enrich_call)
           vals == call.vector.data.vals
           table == TheValue(TheValue(enrich_result).returned).data
       IN  /\ table.value = vals
           /\ Len(table.category) = Len(vals)
           /\ \A i \in 1..Len(vals) :
                 table.category[i] =
                     IF isna(vals[i]) THEN EnrichText.unknown
                     ELSE IF vals[i].v > median(vals).v
                             /\ C27_FartherThanThreshold(vals, vals[i], call.threshold)
                          THEN high_domain(call.domains)
                     ELSE IF vals[i].v < median(vals).v
                             /\ C27_FartherThanThreshold(vals, vals[i], call.threshold)
                          THEN low_domain(call.domains)
                     ELSE mid_domain(call.domains)

\* C23: a check_and_export call that has entered AUTO_CLEAN is not left by an
\* exception: when it ends, it has returned an ExportResult.
C23_CleanErrorsCaught ==
    (SeqContains(phases, "AUTO_CLEAN") /\ pc \notin {"external_check", "fit", "score", "decide"})
    => (pc = "done" /\ ~IsNone(result))

\* the values of a column of the input in the rows that remain: the rows
\* whose target, infinities taken for missing, is not missing
C24_KeptRows(df, target_column) ==
    NotNull(replace_inf(Col(df, target_column).vals))

C24_KeptValues(df, target_column, name) ==
    LET col == Col(df, name)
        vals == IF is_numeric_dtype(col) THEN replace_inf(col.vals) ELSE col.vals
    IN  SelectSeq2(vals, C24_KeptRows(df, target_column), 1)

\* C24: after AUTO_CLEAN each feature column is what its values in the rows
\* that remain, infinities replaced, make it: dropped when they have at most
\* one distinct value or more than 90% of them are missing, and else filled
\* with their median (a numeric column) or their most frequent value (any
\* other), and then encoded when it is categorical, as text is; the type of
\* a column of numbers is an answer of detect_feature_type.  The target
\* keeps its values of those rows.
C24_DecidedOnKeptRows ==
    (pc = "external_check") =>
        LET df == TheValue(run.df)
            cleaned == TheValue(run.cleaned_df)
            kept == C24_KeptRows(df, run.target_column)
            features == FeatureCols(df, run.target_column)
        IN  /\ cleaned.nrows = Cardinality(kept)
            /\ Col(cleaned, run.target_column).vals =
                   C24_KeptValues(df, run.target_column, run.target_column)
            /\ \A j \in 1..Len(features) :
                  LET name == features[j]
                      vals == C24_KeptValues(df, run.target_column, name)
                      dropped == \/ nunique(vals) <= 1
                                 \/ 10 * isna_sum(vals) > 9 * Len(vals)
                      filled(at_fill) ==
                          IF detect_feature_type(Col(df, name), at_fill) = "numeric"
                          THEN fillna(vals, median(vals))
                          ELSE fillna(vals, mode(vals)[1])
                      grouped(at_fill, last) ==
                          IF nunique(vals) > HIGH_CARDINALITY_THRESHOLD
                          THEN group_rare(filled(at_fill),
                                          value_counts_head(filled(at_fill), 99, last))
                          ELSE filled(at_fill)
                  IN  /\ HasColumn(cleaned, name) <=> ~dropped
                      /\ ~dropped =>
                            \E feature_types \in TypeChoices(df, run.target_column) :
                            \E tied_last \in SortChoices(df, run.target_column,
                                                         feature_types) :
                               Col(cleaned, name).vals =
                                  IF detect_feature_type(Col(df, name), feature_types[j][2])
                                         = "categorical"
                                  THEN categorical_codes(grouped(feature_types[j][1],
                                                                 tied_last[j]))
                                  ELSE filled(feature_types[j][1])

\* AUTO_CLEAN has run on a dataset with rows without a target and a feature
\* column that has two values in all rows but one value in the rows that
\* remain: the column was dropped
C24_Witness ==
    /\ pc = "external_check"
    /\ TheValue(run.cleaned_df).nrows < TheValue(run.df).nrows
    /\ \E j \in 1..Len(TheValue(run.df).cols) :
          LET col == TheValue(run.df).cols[j] IN
          /\ col.name # run.target_column
          /\ nunique(col.vals) = 2
          /\ isna_sum(col.vals) = 0
          /\ ~HasColumn(TheValue(run.cleaned_df), col.name)

\* the remove_rows actions of a list of cleaning actions
C25_RemoveRows(actions) == SelectSeq(actions, LAMBDA a : a.action_type = "remove_rows")

\* C25: the result of a run that passed VALIDATE on a dataset with k rows whose
\* target is missing, infinities taken for missing, has k rows fewer than the
\* input; for k > 0 its actions hold one remove_rows action, with
\* rows_affected = k, and for k = 0 none.
C25_RowsRemovedAreCounted ==
    ReachedDecide =>
        LET df == TheValue(run.df)
            res == TheValue(result)
            target == Col(df, run.target_column)
            k == isna_sum(IF is_numeric_dtype(target) THEN replace_inf(target.vals)
                          ELSE target.vals)
            removals == C25_RemoveRows(res.cleaning_actions)
        IN  /\ res.original_row_count = df.nrows
            /\ res.cleaned_row_count = res.original_row_count - k
            /\ TheValue(res.cleaned_df).nrows = res.cleaned_row_count
            /\ \A j \in 1..Len(TheValue(res.cleaned_df).cols) :
                  Len(TheValue(res.cleaned_df).cols[j].vals) = res.cleaned_row_count
            /\ Len(removals) = IF k > 0 THEN 1 ELSE 0
            /\ k > 0 => /\ removals[1].rows_affected = k
                        /\ removals[1].column = run.target_column

\* a result with one row removed, for a target that was infinite, and with
\* cells filled in a feature column, which removes no row
C25_Witness ==
    /\ ReachedDecide
    /\ \E i \in 1..TheValue(run.df).nrows :
          isinf(Col(TheValue(run.df), run.target_column).vals[i])
    /\ TheValue(result).cleaned_row_count = TheValue(result).original_row_count - 1
    /\ Len(C25_RemoveRows(TheValue(result).cleaning_actions)) = 1
    /\ \E j \in 1..Len(TheValue(result).cleaning_actions) :
          TheValue(result).cleaning_actions[j].action_type = "fill_missing"

\* what C26 requires of the dataset AUTO_CLEAN made of df
C26_Clean(df, cleaned, target_column) ==
    /\ \A j \in 1..Len(cleaned.cols) :
          LET col == cleaned.cols[j] IN
          /\ is_numeric_dtype(col) => isinf_sum(col.vals) = 0
          /\ isna_sum(col.vals) = 0
    /\ HasColumn(cleaned, target_column)
    /\ \A j \in 1..Len(df.cols) :
          (/\ df.cols[j].name # target_column
           /\ is_numeric_dtype(df.cols[j])
           /\ \A i \in 1..df.nrows : isinf(df.cols[j].vals[i]))
          => ~HasColumn(cleaned, df.cols[j].name)

\* C26: AUTO_CLEAN, on a dataset that passed VALIDATE, does not raise, and the
\* dataset it gives has no infinite value in a numeric column and no missing
\* value in any column, the target included; a feature column whose values
\* were all infinite is not in it.
C26_NoInfNoMissingNoRaise ==
    SeqContains(phases, "AUTO_CLEAN") =>
        /\ pc # "raised"
        /\ ~IsNone(run.cleaned_df)
        /\ C26_Clean(TheValue(run.df), TheValue(run.cleaned_df), run.target_column)

\* the positions of the nodes of a graph that carry the mark node_type
C28_Marked(G, node_type) == {i \in 1..Len(G.nodes) : G.nodes[i].node_type = Some(node_type)}

\* C28: a graph that build_l2_to_l3_graph returned has one node marked
\* original for each row, one node marked extracted for each distinct entity
\* value that is not missing, and one edge for each row whose entity is not
\* missing; every edge goes from an original node to an extracted node and
\* carries the relationship label, the source column, and the weight when
\* the value column is a column of the table.
C28_Bipartite ==
    (~IsNone(graph_result) /\ ~IsNone(TheValue(graph_result).returned)) =>
        LET call == TheValue(graph_call)
            df == call.table.data
            G == TheValue(TheValue(graph_result).returned).data
            entities == Col(df, call.entity_column).vals
            originals == C28_Marked(G, "original")
            extracted == C28_Marked(G, "extracted")
            weighted == ~IsNone(call.value_column) /\ HasColumn(df, TheValue(call.value_column))
        IN  /\ Cardinality(originals) = df.nrows
            /\ Cardinality(extracted) = nunique(entities)
            /\ {G.nodes[i].id : i \in extracted} = {entities[r] : r \in NotNull(entities)}
            /\ Len(G.edges) = Cardinality(NotNull(entities))
            /\ \A e \in 1..Len(G.edges) :
                  /\ \E i \in originals : G.nodes[i].id = G.edges[e].u
                  /\ \E i \in extracted : G.nodes[i].id = G.edges[e].v
                  /\ G.edges[e].attrs.relationship = call.relationship_type
                  /\ G.edges[e].attrs.source_column = call.entity_column
                  /\ weighted <=> ~IsNone(G.edges[e].attrs.weight)

\* ---- C29 ----

\* the ids of the nodes of a graph
C29_Ids(G) == {G.nodes[i].id : i \in 1..Len(G.nodes)}

\* the rows of the table whose entity is missing
C29_NullRows(df, entity_column) ==
    {r \in 1..df.nrows : isna(Col(df, entity_column).vals[r])}

\* the graph of the last build as build_l2_to_l3_graph returned it
C29_Built ==
    LET call == TheValue(graph_call) IN
    IF IsNone(repaired) THEN TheValue(TheValue(graph_result).returned).data
    ELSE TheValue(build_l2_to_l3_graph(call.table, call.entity_column, call.value_column,
                                       call.relationship_type,
                                       call.validate_orphans).returned).data

\* C29: a graph that build_l2_to_l3_graph returns has a node for every row and
\* for every entity that is not missing, whatever their degree: built with
\* validate_orphans=False, the node of each row with a missing entity is in
\* the graph and has degree 0.  The nodes of degree 0 go only when
\* remove_orphan_nodes is called: the graph it was given, which is the graph
\* it returns, then has the nodes of degree above 0 in their order with
\* their attributes, and the edges as they were.
C29_OrphansStayUntilRemoved ==
    (~IsNone(graph_result) /\ ~IsNone(TheValue(graph_result).returned)) =>
        LET call == TheValue(graph_call)
            df == call.table.data
            G == TheValue(TheValue(graph_result).returned).data
            built == C29_Built
            entities == Col(df, call.entity_column).vals
            ids == original_entities(df)
            connected(node) == degree(built, node.id) > 0
        IN  /\ C29_Ids(built) = {ids[r] : r \in 1..df.nrows}
                                  \cup {entities[r] : r \in NotNull(entities)}
            /\ ~call.validate_orphans =>
                  \A r \in C29_NullRows(df, call.entity_column) :
                      /\ ids[r] \in C29_Ids(built)
                      /\ degree(built, ids[r]) = 0
            /\ ~IsNone(repaired) =>
                  /\ TheValue(repaired) = G
                  /\ G.nodes = SelectSeq(built.nodes, connected)
                  /\ G.edges = built.edges

\* ---- C30 ----

\* C30: a call of check_and_export that has returned reports as
\* api_calls_used the number of external calls that this call made and that
\* returned, whether it ran on an exporter of its own or on the exporter the
\* threads share, alone or while another call ran on that exporter.
C30_CountsOwnCalls ==
    \A t \in Callers :
        callers[t].pc = "done" =>
            callers[t].api_calls_used = Some(callers[t].external_calls)

====
